---------------------------- MODULE Spec2Model ----------------------------
(***************************************************************************)
(* A model of the front-end lowering pipeline of egg-smol: the fresh-name  *)
(* generator, the body flattener (flatten_facts / expr_to_ssa /            *)
(* flatten_equalities), the unique-name pass, the head flattener with its  *)
(* memo table, and the command desugarer that assigns command ids.         *)
(*                                                                         *)
(* A Symbol is the sequence of its characters, so that the text of a       *)
(* generated name ("v", the counter in decimal, the underscores) is        *)
(* computed the way format! computes it.                                   *)
(***************************************************************************)
EXTENDS Integers, Sequences, FiniteSets, TLC

VARIABLES
    next_fresh,          \* Desugar.next_fresh
    next_command_id,     \* Desugar.next_command_id
    number_underscores,  \* Desugar.number_underscores
    global_variables,    \* Desugar.global_variables
    sorts,               \* TypeInfo.sorts
    primitives,          \* TypeInfo.primitives (the names)
    func_types,          \* TypeInfo.func_types
    global_types,        \* TypeInfo.global_types
    input,               \* the command (or rule, or action list) last handed in
    output,              \* what the last operation returned
    pre,                 \* the Desugar (or TypeInfo) fields when the last operation began
    generated,           \* every name get_fresh has returned, in order
    user_symbols,        \* every symbol the user has written so far
    emitted,             \* the ids of the NormCommands emitted so far, in order
    ncmds,               \* number of top-level commands handed in so far
    status               \* "ok" | "panic"

vars == <<next_fresh, next_command_id, number_underscores, global_variables,
          sorts, primitives, func_types, global_types, input, output, pre,
          generated, user_symbols, emitted, ncmds, status>>

----------------------------------------------------------------------------
(* Bounds of the model.                                                    *)

\* the largest value of next_fresh a pure-function check starts from
MaxFresh0 == 1
\* the number of top-level commands of one desugaring session
MaxCmds == 2
\* the number of calls on one TypeInfo
MaxTypeCmds == 3

----------------------------------------------------------------------------
(* Symbols and text.                                                       *)

\* the element of a one-element set
Only(S) == CHOOSE x \in S : TRUE

RECURSIVE Flat(_)
\* the concatenation of a list of lists
Flat(seqs) == IF Len(seqs) = 0 THEN <<>> ELSE seqs[1] \o Flat(Tail(seqs))

DigitChars == <<"0", "1", "2", "3", "4", "5", "6", "7", "8", "9">>

RECURSIVE Decimal(_)
\* the decimal text of a natural number, as Display for usize writes it
Decimal(n) ==
    IF n < 10 THEN <<DigitChars[n + 1]>>
    ELSE Decimal(n \div 10) \o <<DigitChars[(n % 10) + 1]>>

RECURSIVE Repeat(_, _)
\* str::repeat
Repeat(c, k) == IF k = 0 THEN <<>> ELSE <<c>> \o Repeat(c, k - 1)

\* user-written symbols of the checked programs
sym_a == <<"a">>
sym_b == <<"b">>
sym_f == <<"f">>
sym_g == <<"g">>
sym_add == <<"a", "d", "d">>
sym_plus == <<"+">>
sym_S == <<"S">>
sym_s == <<"s">>
sym_empty == <<>>
\* a user-written symbol that has the shape of a generated name
sym_v0 == <<"v", "0", "_", "_", "_">>
\* the symbol desugar_rewrite binds the root of the left-hand side to
rewrite_var == <<"r", "e", "w", "r", "i", "t", "e", "_", "v", "a", "r", "_", "_">>

\* the primitives StringSort registers, and the value-eq primitive of
\* TypeInfo::default
DefaultPrimitives ==
    { sym_plus,
      <<"r", "e", "p", "l", "a", "c", "e">>,
      <<"m", "i", "n", "-", "b", "y", "-", "l", "e", "n", "g", "t", "h">>,
      <<"m", "a", "x", "-", "b", "y", "-", "l", "e", "n", "g", "t", "h">>,
      <<"v", "a", "l", "u", "e", "-", "e", "q">> }

\* names the container sorts reserve (MapSort, SetSort and
\* VecSort::presort_names), one for each
PresortNames ==
    { <<"m", "a", "p", "-", "e", "m", "p", "t", "y">>,
      <<"s", "e", "t", "-", "o", "f">>,
      <<"v", "e", "c", "-", "o", "f">> }

\* TypeInfo::default().is_primitive(sym), the test expr_to_ssa performs
is_primitive_default(sym) == sym \in DefaultPrimitives \/ sym \in PresortNames

\* TypeInfo::is_primitive on the registry of the running TypeInfo
is_primitive(prims, sym) == sym \in prims \/ sym \in PresortNames

\* Literal::Int and Literal::String: the variant followed by the text of
\* the value
LitInt(digits) == <<"Int">> \o digits
LitString(sym) == <<"String">> \o sym
\* Literal::F64: the variant followed by the text f64::to_string gives the
\* value, which has no exponent and no decimal point for an integral value
LitF64(text) == <<"F64">> \o text
lit_one == LitInt(<<"1">>)
lit_s == LitString(sym_s)

\* the value of a decimal digit
digit_value(c) == (CHOOSE i \in 1..10 : DigitChars[i] = c) - 1

RECURSIVE strip_zeros(_)
strip_zeros(digits) ==
    IF Len(digits) > 1 /\ digits[1] = "0" THEN strip_zeros(Tail(digits)) ELSE digits

RECURSIVE digits_leq(_, _)
\* whether one list of digits is at most another of the same length
digits_leq(a, b) ==
    IF Len(a) = 0 THEN TRUE
    ELSE IF a[1] # b[1] THEN digit_value(a[1]) < digit_value(b[1])
    ELSE digits_leq(Tail(a), Tail(b))

\* u32::MAX as text
u32_max == <<"4", "2", "9", "4", "9", "6", "7", "2", "9", "5">>

\* str::parse::<u32>().is_ok(): an optional plus sign, then at least one
\* decimal digit, the value at most u32::MAX
parses_as_u32(text) ==
    Only({ /\ Len(digits) > 0
           /\ \A i \in 1..Len(digits) : \E j \in 1..10 : DigitChars[j] = digits[i]
           /\ \/ Len(strip_zeros(digits)) < Len(u32_max)
              \/ /\ Len(strip_zeros(digits)) = Len(u32_max)
                 /\ digits_leq(strip_zeros(digits), u32_max) :
           digits \in {IF Len(text) > 0 /\ text[1] = "+" THEN Tail(text) ELSE text} })

\* i64::MAX and the magnitude of i64::MIN as text
i64_max == <<"9", "2", "2", "3", "3", "7", "2", "0", "3", "6", "8", "5", "4", "7",
             "7", "5", "8", "0", "7">>
i64_min_magnitude == <<"9", "2", "2", "3", "3", "7", "2", "0", "3", "6", "8", "5", "4",
                       "7", "7", "5", "8", "0", "8">>

\* a list of decimal digits whose value is at most that of limit
digits_at_most(digits, limit) ==
    /\ Len(digits) > 0
    /\ \A i \in 1..Len(digits) : \E j \in 1..10 : DigitChars[j] = digits[i]
    /\ \/ Len(strip_zeros(digits)) < Len(limit)
       \/ /\ Len(strip_zeros(digits)) = Len(limit)
          /\ digits_leq(strip_zeros(digits), limit)

\* str::parse::<i64>().is_ok(): an optional sign, then at least one decimal
\* digit, the value within i64
parses_as_i64(text) ==
    IF Len(text) > 0 /\ text[1] = "-" THEN digits_at_most(Tail(text), i64_min_magnitude)
    ELSE IF Len(text) > 0 /\ text[1] = "+" THEN digits_at_most(Tail(text), i64_max)
    ELSE digits_at_most(text, i64_max)

\* is_temp_name (from_egraph.rs 57-59): a name that starts with v and ends
\* with three underscores has at least four characters
is_temp_name(name) ==
    /\ Len(name) >= 4
    /\ name[1] = "v"
    /\ SubSeq(name, Len(name) - 2, Len(name)) = <<"_", "_", "_">>
    /\ parses_as_u32(SubSeq(name, 2, Len(name) - 3))

----------------------------------------------------------------------------
(* The Desugar value and its two counters.                                 *)

Desugar(nf, nid, k, globals) ==
    [next_fresh |-> nf, next_command_id |-> nid,
     number_underscores |-> k, global_variables |-> globals]

\* Desugar::default
DesugarDefault == Desugar(0, 0, 3, {})

\* the text get_fresh formats for counter value n with k underscores
FreshName(n, k) == <<"v">> \o Decimal(n) \o Repeat("_", k)

get_fresh_stuck(d) ==
    [d |-> d, name |-> FreshName(d.next_fresh, d.number_underscores)]

\* Desugar::get_fresh: returns the name for the current counter and
\* increments the counter
get_fresh(d) ==
    [d |-> [d EXCEPT !.next_fresh = @ + 1],
     name |-> FreshName(d.next_fresh, d.number_underscores)]

get_new_id_stuck(d) == [d |-> d, id |-> d.next_command_id]

\* Desugar::get_new_id
get_new_id(d) ==
    [d |-> [d EXCEPT !.next_command_id = @ + 1], id |-> d.next_command_id]

\* a clone that starts its fresh names again
clone_fresh_counter_reset(d) == [d EXCEPT !.next_fresh = 0]

\* impl Clone for Desugar (desugar.rs 718-729): the four fields are copied
\* and the parsers are made anew
clone(d) ==
    Desugar(d.next_fresh, d.next_command_id, d.number_underscores,
            d.global_variables)

----------------------------------------------------------------------------
(* Surface and normalized syntax.                                          *)

Var(v) == [tag |-> "Var", head |-> v, children |-> <<>>]
Lit(l) == [tag |-> "Lit", head |-> l, children |-> <<>>]
Call(f, children) == [tag |-> "Call", head |-> f, children |-> children]

\* GenericExpr::is_var
is_var(e) == e.tag = "Var"

FactEq(args) == [tag |-> "Eq", args |-> args]
FactFact(e) == [tag |-> "Fact", args |-> <<e>>]

ActLet(x, e) == [tag |-> "Let", sym |-> x, args |-> <<>>, rhs |-> <<e>>]
ActSet(f, args, rhs) == [tag |-> "Set", sym |-> f, args |-> args, rhs |-> <<rhs>>]
ActSetNoTrack(f, args, rhs) ==
    [tag |-> "SetNoTrack", sym |-> f, args |-> args, rhs |-> <<rhs>>]
ActDelete(f, args) == [tag |-> "Delete", sym |-> f, args |-> args, rhs |-> <<>>]
ActUnion(l, r) == [tag |-> "Union", sym |-> sym_empty, args |-> <<l>>, rhs |-> <<r>>]
ActPanic(msg) == [tag |-> "Panic", sym |-> msg, args |-> <<>>, rhs |-> <<>>]
ActExpr(e) == [tag |-> "Expr", sym |-> sym_empty, args |-> <<e>>, rhs |-> <<>>]

Rule(body, head) == [body |-> body, head |-> head]
Rewrite(lhs, rhs, conditions) == [lhs |-> lhs, rhs |-> rhs, conditions |-> conditions]

\* NormExpr::Call(head, args): every argument is a name
NormCall(f, args) == [head |-> f, args |-> args]

\* NormFact
Assign(lhs, ne) == [tag |-> "Assign", lhs |-> lhs, head |-> ne.head, args |-> ne.args]
Compute(lhs, ne) == [tag |-> "Compute", lhs |-> lhs, head |-> ne.head, args |-> ne.args]
AssignLit(lhs, l) == [tag |-> "AssignLit", lhs |-> lhs, head |-> l, args |-> <<>>]
ConstrainEq(a, b) == [tag |-> "ConstrainEq", lhs |-> a, head |-> sym_empty, args |-> <<b>>]

\* NormAction
NLet(lhs, ne) == [tag |-> "Let", lhs |-> lhs, head |-> ne.head, args |-> ne.args]
NLetLit(lhs, l) == [tag |-> "LetLit", lhs |-> lhs, head |-> l, args |-> <<>>]
NLetVar(lhs, v) == [tag |-> "LetVar", lhs |-> lhs, head |-> sym_empty, args |-> <<v>>]
NSet(ne, rhs) == [tag |-> "Set", lhs |-> rhs, head |-> ne.head, args |-> ne.args]
NDelete(ne) == [tag |-> "Delete", lhs |-> sym_empty, head |-> ne.head, args |-> ne.args]
NUnion(a, b) == [tag |-> "Union", lhs |-> a, head |-> sym_empty, args |-> <<b>>]
NPanic(msg) == [tag |-> "Panic", lhs |-> sym_empty, head |-> msg, args |-> <<>>]

\* NormExpr::to_expr: the call with every argument a variable
to_expr(ne) == Call(ne.head, [i \in 1..Len(ne.args) |-> Var(ne.args[i])])

----------------------------------------------------------------------------
(* The body flattener.                                                     *)

\* the working state of flatten_equalities: the Desugar value, the facts
\* pushed so far, the deferred constraints and the bound variables
SsaState(d, res, constraints, bound) ==
    [d |-> d, res |-> res, constraints |-> constraints, bound |-> bound]

RECURSIVE expr_to_ssa(_, _, _)
RECURSIVE ssa_primitive_children(_, _, _, _)
RECURSIVE ssa_call_children(_, _, _, _)

\* the loop over the children of a primitive call (desugar.rs 97-108):
\* a variable child is used as it is and is not marked bound
ssa_primitive_children(children, i, st, new_children) ==
    IF i > Len(children) THEN [st |-> st, new_children |-> new_children]
    ELSE IF children[i].tag = "Var"
    THEN ssa_primitive_children(children, i + 1, st,
                                Append(new_children, children[i].head))
    ELSE Only({ ssa_primitive_children(children, i + 1,
                    expr_to_ssa(fr.name, children[i], [st EXCEPT !.d = fr.d]),
                    Append(new_children, fr.name)) :
                fr \in {get_fresh(st.d)} })

\* the loop over the children of a user-function call (desugar.rs 114-132)
ssa_call_children(children, i, st, new_children) ==
    IF i > Len(children) THEN [st |-> st, new_children |-> new_children]
    ELSE IF children[i].tag = "Var" /\ children[i].head \notin st.bound
    THEN ssa_call_children(children, i + 1,
                           [st EXCEPT !.bound = @ \cup {children[i].head}],
                           Append(new_children, children[i].head))
    ELSE IF children[i].tag = "Var"
    THEN Only({ ssa_call_children(children, i + 1,
                    [st EXCEPT !.d = fr.d,
                               !.constraints = Append(@, <<fr.name, children[i].head>>)],
                    Append(new_children, fr.name)) :
                fr \in {get_fresh(st.d)} })
    ELSE Only({ ssa_call_children(children, i + 1,
                    expr_to_ssa(fr.name, children[i],
                                [st EXCEPT !.d = fr.d, !.bound = @ \cup {fr.name}]),
                    Append(new_children, fr.name)) :
                fr \in {get_fresh(st.d)} })

\* the first part of expr_to_ssa for a literal or a call (desugar.rs 82-93):
\* the name the fact defines and the state after choosing it
ssa_lhs(lhs_in, st) ==
    IF lhs_in \notin st.bound
    THEN [lhs |-> lhs_in, st |-> [st EXCEPT !.bound = @ \cup {lhs_in}]]
    ELSE Only({ [lhs |-> fr.name,
                 st |-> [st EXCEPT !.d = fr.d,
                                   !.constraints = Append(@, <<fr.name, lhs_in>>)]] :
                fr \in {get_fresh(st.d)} })

expr_to_ssa_all_assign(lhs_in, expr, st) ==
    IF expr.tag = "Var"
    THEN [st EXCEPT !.res = Append(@, ConstrainEq(lhs_in, expr.head))]
    ELSE IF expr.tag = "Lit"
    THEN Only({ [l.st EXCEPT !.res = Append(@, AssignLit(l.lhs, expr.head))] :
                l \in {ssa_lhs(lhs_in, st)} })
    ELSE Only({ Only({ [r.st EXCEPT !.res =
                           Append(@, Assign(l.lhs, NormCall(expr.head, r.new_children)))] :
                       r \in {ssa_call_children(expr.children, 1, l.st, <<>>)} }) :
                l \in {ssa_lhs(lhs_in, st)} })

\* expr_to_ssa (desugar.rs 70-136)
expr_to_ssa(lhs_in, expr, st) ==
    IF expr.tag = "Var"
    THEN [st EXCEPT !.res = Append(@, ConstrainEq(lhs_in, expr.head))]
    ELSE IF expr.tag = "Lit"
    THEN Only({ [l.st EXCEPT !.res = Append(@, AssignLit(l.lhs, expr.head))] :
                l \in {ssa_lhs(lhs_in, st)} })
    ELSE IF is_primitive_default(expr.head)
    THEN Only({ Only({ [r.st EXCEPT !.res =
                           Append(@, Compute(l.lhs, NormCall(expr.head, r.new_children)))] :
                       r \in {ssa_primitive_children(expr.children, 1, l.st, <<>>)} }) :
                l \in {ssa_lhs(lhs_in, st)} })
    ELSE Only({ Only({ [r.st EXCEPT !.res =
                           Append(@, Assign(l.lhs, NormCall(expr.head, r.new_children)))] :
                       r \in {ssa_call_children(expr.children, 1, l.st, <<>>)} }) :
                l \in {ssa_lhs(lhs_in, st)} })

RECURSIVE flatten_equalities_loop(_, _, _)
\* the loop of flatten_equalities over the gathered (lhs, rhs) pairs
\* (desugar.rs 143-167)
flatten_equalities_loop(equalities, i, st) ==
    IF i > Len(equalities) THEN st
    ELSE IF equalities[i][1] \in st.d.global_variables
            \/ (equalities[i][1] \in st.bound /\ ~is_var(equalities[i][2]))
    THEN Only({ Only({ flatten_equalities_loop(equalities, i + 1,
                           [st1 EXCEPT !.constraints =
                               Append(@, <<fr.name, equalities[i][1]>>)]) :
                       st1 \in {expr_to_ssa(fr.name, equalities[i][2],
                                            [st EXCEPT !.d = fr.d])} }) :
                fr \in {get_fresh(st.d)} })
    ELSE flatten_equalities_loop(equalities, i + 1,
                                 expr_to_ssa(equalities[i][1], equalities[i][2], st))

\* flatten_equalities without the test of global_variables at line 144
flatten_equalities_globals_rebound(equalities, d) ==
    Only({ [d |-> [st.d EXCEPT !.global_variables = d.global_variables],
            facts |-> st.res \o [i \in 1..Len(st.constraints) |->
                                    ConstrainEq(st.constraints[i][1],
                                                st.constraints[i][2])]] :
           st \in {flatten_equalities_loop(equalities, 1,
                      SsaState([d EXCEPT !.global_variables = {}], <<>>, <<>>, {}))} })

flatten_equalities_constraints_first(equalities, d) ==
    Only({ [d |-> st.d,
            facts |-> [i \in 1..Len(st.constraints) |->
                          ConstrainEq(st.constraints[i][1], st.constraints[i][2])]
                      \o st.res] :
           st \in {flatten_equalities_loop(equalities, 1,
                                           SsaState(d, <<>>, <<>>, {}))} })

\* flatten_equalities (desugar.rs 138-174): the deferred constraints are
\* appended after all the facts
flatten_equalities(equalities, d) ==
    Only({ [d |-> st.d,
            facts |-> st.res \o [i \in 1..Len(st.constraints) |->
                                    ConstrainEq(st.constraints[i][1],
                                                st.constraints[i][2])]] :
           st \in {flatten_equalities_loop(equalities, 1,
                                           SsaState(d, <<>>, <<>>, {}))} })

RECURSIVE gather_equalities(_, _, _, _)
\* the loop of flatten_facts (desugar.rs 178-198); an Eq whose arity is not
\* two fails the assertion of line 181
gather_equalities(facts, i, d, equalities) ==
    IF i > Len(facts) THEN [d |-> d, equalities |-> equalities, panic |-> FALSE]
    ELSE IF facts[i].tag = "Eq" /\ Len(facts[i].args) # 2
    THEN [d |-> d, equalities |-> equalities, panic |-> TRUE]
    ELSE IF facts[i].tag = "Eq" /\ facts[i].args[1].tag = "Var"
    THEN gather_equalities(facts, i + 1, d,
             Append(equalities, <<facts[i].args[1].head, facts[i].args[2]>>))
    ELSE IF facts[i].tag = "Eq" /\ facts[i].args[2].tag = "Var"
    THEN gather_equalities(facts, i + 1, d,
             Append(equalities, <<facts[i].args[2].head, facts[i].args[1]>>))
    ELSE IF facts[i].tag = "Eq"
    THEN Only({ gather_equalities(facts, i + 1, fr.d,
                    equalities \o <<(<<fr.name, facts[i].args[1]>>),
                                    (<<fr.name, facts[i].args[2]>>)>>) :
                fr \in {get_fresh(d)} })
    ELSE Only({ gather_equalities(facts, i + 1, fr.d,
                    Append(equalities, <<fr.name, facts[i].args[1]>>)) :
                fr \in {get_fresh(d)} })

\* flatten_facts (desugar.rs 176-201)
flatten_facts(facts, d) ==
    Only({ IF g.panic THEN [d |-> g.d, facts |-> <<>>, panic |-> TRUE]
           ELSE Only({ [d |-> r.d, facts |-> r.facts, panic |-> FALSE] :
                       r \in {flatten_equalities(g.equalities, g.d)} }) :
           g \in {gather_equalities(facts, 1, d, <<>>)} })

----------------------------------------------------------------------------
(* The unique-name pass.                                                   *)

\* NormFact::map_def_use: the names of a fact in the order the callback
\* sees them, each with its is_def flag.  The defining position is the lhs
\* of Assign, Compute and AssignLit and the first argument of ConstrainEq;
\* every other position is a use.
def_use(fact) ==
    <<[var |-> fact.lhs, is_def |-> TRUE]>>
    \o [i \in 1..Len(fact.args) |-> [var |-> fact.args[i], is_def |-> FALSE]]

\* NormFact::map_def_use: the fact rebuilt from what the callback returned
with_names(fact, names) == [fact EXCEPT !.lhs = names[1], !.args = Tail(names)]

RECURSIVE unique_names_in_fact(_, _, _)
\* the callback of give_unique_names applied along one fact
\* (desugar.rs 269-288)
unique_names_in_fact(positions, i, st) ==
    IF i > Len(positions) THEN st
    ELSE IF ~positions[i].is_def
    THEN unique_names_in_fact(positions, i + 1,
                              [st EXCEPT !.names = Append(@, positions[i].var)])
    ELSE IF positions[i].var \notin st.name_used
    THEN unique_names_in_fact(positions, i + 1,
             [st EXCEPT !.name_used = @ \cup {positions[i].var},
                        !.name_used_immediately = @ \cup {positions[i].var},
                        !.names = Append(@, positions[i].var)])
    ELSE Only({ unique_names_in_fact(positions, i + 1,
                    IF positions[i].var \in st.name_used_immediately
                    THEN [st EXCEPT !.d = fr.d,
                                    !.constraints =
                                        Append(@, ConstrainEq(fr.name, positions[i].var)),
                                    !.names = Append(@, fr.name)]
                    ELSE [st EXCEPT !.d = fr.d,
                                    !.constraints_before =
                                        Append(@, ConstrainEq(fr.name, positions[i].var)),
                                    !.names = Append(@, fr.name)]) :
                fr \in {get_fresh(st.d)} })

RECURSIVE give_unique_names_loop(_, _, _)
\* the loop of give_unique_names over the facts (desugar.rs 266-291)
give_unique_names_loop(facts, i, st) ==
    IF i > Len(facts) THEN st
    ELSE Only({ give_unique_names_loop(facts, i + 1,
                    [st1 EXCEPT !.res = (@ \o st1.constraints_before)
                                        \o <<with_names(facts[i], st1.names)>>]) :
                st1 \in {unique_names_in_fact(def_use(facts[i]), 1,
                             [st EXCEPT !.name_used_immediately = {},
                                        !.constraints_before = <<>>,
                                        !.names = <<>>])} })

\* give_unique_names (desugar.rs 262-295)
give_unique_names(d, facts) ==
    Only({ [d |-> st.d, facts |-> st.res \o st.constraints] :
           st \in {give_unique_names_loop(facts, 1,
                      [d |-> d, name_used |-> {}, constraints |-> <<>>, res |-> <<>>,
                       name_used_immediately |-> {}, constraints_before |-> <<>>,
                       names |-> <<>>])} })

----------------------------------------------------------------------------
(* The head flattener.                                                     *)

\* HashMap::insert on the memo
memo_insert(memo, expr, name) == (expr :> name) @@ memo

\* the empty HashMap
EmptyMemo == [e \in {} |-> sym_empty]

\* the working state of a head flattening: the Desugar value, the action
\* buffer, the memo, and whether an assertion has failed
FlatState(d) == [d |-> d, res |-> <<>>, memo |-> EmptyMemo, panic |-> FALSE]

RECURSIVE expr_to_flat_actions(_, _)
RECURSIVE flat_children(_, _, _, _)

\* the loop over the children of a call (desugar.rs 777-787)
flat_children(children, i, st, new_children) ==
    IF i > Len(children) THEN [st |-> st, new_children |-> new_children]
    ELSE IF children[i].tag = "Var"
    THEN flat_children(children, i + 1, st, Append(new_children, children[i].head))
    ELSE Only({ flat_children(children, i + 1, r.st, Append(new_children, r.name)) :
                r \in {expr_to_flat_actions(children[i], st)} })

\* the end of the Call arm (desugar.rs 788-796): the normalized call is
\* looked up in the memo before it is bound
flat_call(f, c, assign) ==
    IF to_expr(NormCall(f, c.new_children)) \in DOMAIN c.st.memo
    THEN [st |-> c.st, name |-> c.st.memo[to_expr(NormCall(f, c.new_children))]]
    ELSE [st |-> [c.st EXCEPT
                     !.memo = memo_insert(@, to_expr(NormCall(f, c.new_children)),
                                          assign),
                     !.res = Append(@, NLet(assign, NormCall(f, c.new_children)))],
          name |-> assign]

\* the match of expr_to_flat_actions (desugar.rs 767-798)
flat_match(expr, st) ==
    IF expr.tag = "Var" THEN [st |-> st, name |-> expr.head]
    ELSE IF expr.tag = "Lit"
    THEN Only({ [st |-> [st EXCEPT !.d = fr.d,
                                   !.res = Append(@, NLetLit(fr.name, expr.head))],
                 name |-> fr.name] :
                fr \in {get_fresh(st.d)} })
    ELSE Only({ Only({ flat_call(expr.head, c, fr.name) :
                       c \in {flat_children(expr.children, 1,
                                            [st EXCEPT !.d = fr.d], <<>>)} }) :
                fr \in {get_fresh(st.d)} })

expr_to_flat_actions_no_memo(expr, st) ==
    Only({ [st |-> [r.st EXCEPT !.memo = memo_insert(@, expr, r.name)],
            name |-> r.name] :
           r \in {flat_match(expr, st)} })

\* Desugar::expr_to_flat_actions (desugar.rs 758-801); st holds the
\* Desugar value, the action buffer res and the memo
expr_to_flat_actions(expr, st) ==
    IF expr \in DOMAIN st.memo THEN [st |-> st, name |-> st.memo[expr]]
    ELSE Only({ [st |-> [r.st EXCEPT !.memo = memo_insert(@, expr, r.name)],
                 name |-> r.name] :
                r \in {flat_match(expr, st)} })

RECURSIVE add_exprs(_, _, _, _)
\* exprs.into_iter().map(|ex| add_expr(ex, &mut res)).collect()
add_exprs(exprs, i, st, names) ==
    IF i > Len(exprs) THEN [st |-> st, names |-> names]
    ELSE Only({ add_exprs(exprs, i + 1, r.st, Append(names, r.name)) :
                r \in {expr_to_flat_actions(exprs[i], st)} })

\* one iteration of the loop of flatten_actions (desugar.rs 211-257);
\* st.panic records a failed assert_ne of line 215
flatten_action(action, st) ==
    CASE action.tag = "Let" ->
            Only({ IF action.sym = r.name
                   THEN [r.st EXCEPT !.panic = TRUE]
                   ELSE [r.st EXCEPT !.res = Append(@, NLetVar(action.sym, r.name))] :
                   r \in {expr_to_flat_actions(action.rhs[1], st)} })
      [] action.tag \in {"Set", "SetNoTrack"} ->
            Only({ Only({ [r.st EXCEPT !.res =
                             Append(@, NSet(NormCall(action.sym, a.names), r.name))] :
                          r \in {expr_to_flat_actions(action.rhs[1], a.st)} }) :
                   a \in {add_exprs(action.args, 1, st, <<>>)} })
      [] action.tag = "Delete" ->
            Only({ [a.st EXCEPT !.res =
                       Append(@, NDelete(NormCall(action.sym, a.names)))] :
                   a \in {add_exprs(action.args, 1, st, <<>>)} })
      [] action.tag = "Union" ->
            Only({ Only({ [r.st EXCEPT !.res = Append(@, NUnion(l.name, r.name))] :
                          r \in {expr_to_flat_actions(action.rhs[1], l.st)} }) :
                   l \in {expr_to_flat_actions(action.args[1], st)} })
      [] action.tag = "Panic" ->
            [st EXCEPT !.res = Append(@, NPanic(action.sym))]
      [] action.tag = "Expr" ->
            expr_to_flat_actions(action.args[1], st).st

RECURSIVE flatten_actions_loop(_, _, _)
flatten_actions_loop(actions, i, st) ==
    IF i > Len(actions) \/ st.panic THEN st
    ELSE flatten_actions_loop(actions, i + 1, flatten_action(actions[i], st))

\* flatten_actions (desugar.rs 203-260): one memo and one buffer for the
\* whole list
flatten_actions(actions, d) ==
    Only({ [d |-> st.d, actions |-> st.res, panic |-> st.panic] :
           st \in {flatten_actions_loop(actions, 1, FlatState(d))} })

----------------------------------------------------------------------------
(* The rule flattener.                                                     *)

NormRule(body, head) == [body |-> body, head |-> head]

\* flatten_rule (desugar.rs 297-305): body, unique names, then head
flatten_rule(rule, d) ==
    Only({ IF flat_facts.panic
           THEN [d |-> flat_facts.d, rule |-> NormRule(<<>>, <<>>), panic |-> TRUE,
                 flat_facts |-> <<>>]
           ELSE Only({ Only({ [d |-> head.d,
                               rule |-> NormRule(with_unique_names.facts, head.actions),
                               panic |-> head.panic,
                               flat_facts |-> flat_facts.facts] :
                              head \in {flatten_actions(rule.head,
                                                        with_unique_names.d)} }) :
                       with_unique_names \in {give_unique_names(flat_facts.d,
                                                                flat_facts.facts)} }) :
           flat_facts \in {flatten_facts(rule.body, d)} })

----------------------------------------------------------------------------
(* Printed forms.                                                          *)

RECURSIVE Join(_, _)
\* the texts of a list separated by sep
Join(texts, sep) ==
    IF Len(texts) = 0 THEN <<>>
    ELSE IF Len(texts) = 1 THEN texts[1]
    ELSE texts[1] \o sep \o Join(Tail(texts), sep)

\* Display for Literal (expr.rs 41-59), for the Int, F64 and String
\* variants: a float whose text parses as an i64 gets ".0" appended
literal_to_string(l) ==
    IF l[1] = "String" THEN <<"\"">> \o Tail(l) \o <<"\"">>
    ELSE IF l[1] = "F64" /\ parses_as_i64(Tail(l)) THEN Tail(l) \o <<".", "0">>
    ELSE Tail(l)

RECURSIVE expr_to_string(_)
\* GenericExpr::to_sexp and its Display (expr.rs 259-282): a call is the
\* parenthesised head followed by the children
expr_to_string(e) ==
    CASE e.tag = "Lit" -> literal_to_string(e.head)
      [] e.tag = "Var" -> e.head
      [] e.tag = "Call" ->
            <<"(">> \o Join(<<e.head>> \o [i \in 1..Len(e.children) |->
                                            expr_to_string(e.children[i])], <<" ">>)
            \o <<")">>

\* Display for Fact
fact_to_string(fact) ==
    IF fact.tag = "Eq"
    THEN <<"(", "=", " ">> \o Join([i \in 1..Len(fact.args) |-> expr_to_string(fact.args[i])],
                          <<" ">>) \o <<")">>
    ELSE expr_to_string(fact.args[1])

\* Display for Action
action_to_string(action) ==
    LET args == Join([i \in 1..Len(action.args) |-> expr_to_string(action.args[i])],
                     <<" ">>)
        call == <<"(">> \o action.sym
                \o (IF Len(action.args) = 0 THEN <<>> ELSE <<" ">> \o args) \o <<")">>
    IN CASE action.tag = "Let" ->
               <<"(", "l", "e", "t", " ">> \o action.sym \o <<" ">> \o expr_to_string(action.rhs[1]) \o <<")">>
         [] action.tag \in {"Set", "SetNoTrack"} ->
               <<"(", "s", "e", "t", " ">> \o call \o <<" ">> \o expr_to_string(action.rhs[1]) \o <<")">>
         [] action.tag = "Delete" -> <<"(", "d", "e", "l", "e", "t", "e", " ">> \o call \o <<")">>
         [] action.tag = "Union" ->
               <<"(", "u", "n", "i", "o", "n", " ">> \o args \o <<" ">> \o expr_to_string(action.rhs[1]) \o <<")">>
         [] action.tag = "Panic" -> <<"(", "p", "a", "n", "i", "c", " ", "\"">> \o action.sym \o <<"\"", ")">>
         [] action.tag = "Expr" -> args

\* Display for Rewrite: the two sides, then the conditions after :when
rewrite_to_string(rewrite) ==
    expr_to_string(rewrite.lhs) \o <<" ">> \o expr_to_string(rewrite.rhs)
    \o (IF Len(rewrite.conditions) = 0 THEN <<>>
        ELSE <<" ", ":", "w", "h", "e", "n", " ", "(">>
             \o Join([i \in 1..Len(rewrite.conditions) |->
                         fact_to_string(rewrite.conditions[i])], <<" ">>)
             \o <<")">>)

\* Display for Rule
rule_to_string(rule) ==
    <<"(", "r", "u", "l", "e", " ", "(">>
    \o Join([i \in 1..Len(rule.body) |-> fact_to_string(rule.body[i])], <<" ">>)
    \o <<")", " ", "(">>
    \o Join([i \in 1..Len(rule.head) |-> action_to_string(rule.head[i])], <<" ">>)
    \o <<")", ")">>

\* str::replace('\"', "'")
replace_quotes(text) ==
    [i \in 1..Len(text) |-> IF text[i] = "\"" THEN "'" ELSE text[i]]

rewrite_name_keep_quotes(rewrite) == rewrite_to_string(rewrite)

\* rewrite_name (desugar.rs 451-453)
rewrite_name(rewrite) == replace_quotes(rewrite_to_string(rewrite))

----------------------------------------------------------------------------
(* Commands and normalized commands.                                       *)

Variant(name, types, cost) == [name |-> name, types |-> types, cost |-> cost]
IdentSort(ident, sort) == [ident |-> ident, sort |-> sort]

\* FunctionDecl with its Schema; an Option is a list of at most one element
FunctionDecl(name, input_sorts, output_sort, cost) ==
    [name |-> name, schema |-> [input |-> input_sorts, output |-> output_sort],
     merge |-> <<>>, merge_action |-> <<>>, default |-> <<>>, cost |-> cost]

\* RunConfig and NormRunConfig
RunConfig(ruleset, limit, until) ==
    [ruleset |-> ruleset, limit |-> limit, until |-> until]

\* Schedule and NormSchedule
SchedRun(config) == [tag |-> "Run", num |-> 0, config |-> <<config>>, schedules |-> <<>>]
SchedRepeat(num, schedule) ==
    [tag |-> "Repeat", num |-> num, config |-> <<>>, schedules |-> <<schedule>>]
SchedSaturate(schedule) ==
    [tag |-> "Saturate", num |-> 0, config |-> <<>>, schedules |-> <<schedule>>]
SchedSequence(schedules) ==
    [tag |-> "Sequence", num |-> 0, config |-> <<>>, schedules |-> schedules]

\* Command
CmdRewrite(ruleset, rewrite) ==
    [tag |-> "Rewrite", ruleset |-> ruleset, rewrite |-> rewrite]
CmdBiRewrite(ruleset, rewrite) ==
    [tag |-> "BiRewrite", ruleset |-> ruleset, rewrite |-> rewrite]
CmdRule(ruleset, name, rule) ==
    [tag |-> "Rule", ruleset |-> ruleset, name |-> name, surface_rule |-> rule]
CmdDeclare(name, sort) == [tag |-> "Declare", name |-> name, sort |-> sort]
CmdDatatype(name, variants) ==
    [tag |-> "Datatype", name |-> name, variants |-> variants]
CmdDefine(name, expr) == [tag |-> "Define", name |-> name, expr |-> expr]
CmdAction(action) == [tag |-> "Action", action |-> action]
CmdSimplify(expr, config) == [tag |-> "Simplify", expr |-> expr, config |-> config]
CmdExtract(n, e) == [tag |-> "Extract", nvariants |-> n, expr |-> e]
CmdCalc(idents, exprs) == [tag |-> "Calc", idents |-> idents, exprs |-> exprs]
CmdRun(config) == [tag |-> "Run", config |-> config]
CmdRunSchedule(schedule) == [tag |-> "RunSchedule", schedule |-> schedule]
CmdCheck(facts) == [tag |-> "Check", facts |-> facts]
CmdInclude(file) == [tag |-> "Include", file |-> file]
CmdFail(cmd) == [tag |-> "Fail", inner |-> cmd]

\* the commands whose NCommand has the same variant and the same payload
CmdSort(name, presort) == [tag |-> "Sort", name |-> name, presort |-> presort]
CmdFunction(fdecl) == [tag |-> "Function", fdecl |-> fdecl]
CmdAddRuleset(name) == [tag |-> "AddRuleset", name |-> name]
CmdPush(n) == [tag |-> "Push", n |-> n]
CmdPop(n) == [tag |-> "Pop", n |-> n]
CmdPrintSize(name) == [tag |-> "PrintSize", name |-> name]
CmdPrint(name, n) == [tag |-> "Print", name |-> name, n |-> n]
CmdSetOption(name, value) == [tag |-> "SetOption", name |-> name, expr |-> value]
CmdOutput(file, exprs) == [tag |-> "Output", file |-> file, exprs |-> exprs]
CmdInput(name, file) == [tag |-> "Input", name |-> name, file |-> file]
CmdVisualize(file) == [tag |-> "Visualize", file |-> file]

PassedThrough ==
    {"SetOption", "Function", "Sort", "AddRuleset", "Print", "PrintSize",
     "Output", "Push", "Pop", "Input", "Visualize"}

\* NCommand, for the variants that differ from the command
NCNormRule(ruleset, name, rule) ==
    [tag |-> "NormRule", ruleset |-> ruleset, name |-> name, rule |-> rule]
NCNormAction(action) == [tag |-> "NormAction", naction |-> action]
NCRunSchedule(schedule) == [tag |-> "RunSchedule", nschedule |-> schedule]
NCCheck(facts) == [tag |-> "Check", nfacts |-> facts]
NCSimplify(var, config) == [tag |-> "Simplify", var |-> var, nconfig |-> config]
NCExtract(n, var) == [tag |-> "Extract", nvariants |-> n, var |-> var]
NCFail(ncommand) == [tag |-> "Fail", ninner |-> ncommand]

\* NormCommand
NormCommand(id, ncommand) == [metadata |-> [id |-> id], command |-> ncommand]

\* the cost every declared constant gets
HIGH_COST == 2147483647

\* what read_to_string and the parser give for the files a program may
\* include: a program, a parse error, or no file at all
sym_p == <<"p">>
sym_q == <<"q">>
sym_r == <<"r">>
ReadableFiles == {sym_p, sym_q, sym_r}
parse_program(file) ==
    IF file = sym_p
    THEN [ok |-> TRUE,
          program |-> <<CmdPush(1), CmdDeclare(sym_b, sym_S)>>]
    ELSE IF file = sym_r
    THEN [ok |-> TRUE,
          program |-> <<CmdDeclare(sym_b, sym_S), CmdInclude(sym_q)>>]
    ELSE [ok |-> FALSE, program |-> <<>>]

----------------------------------------------------------------------------
(* Desugaring of commands.                                                 *)

desugar_datatype_no_cost(name, variants) ==
    <<CmdSort(name, <<>>)>>
    \o [i \in 1..Len(variants) |->
           CmdFunction(FunctionDecl(variants[i].name, variants[i].types, name, <<>>))]

\* desugar_datatype (desugar.rs 3-20)
desugar_datatype(name, variants) ==
    <<CmdSort(name, <<>>)>>
    \o [i \in 1..Len(variants) |->
           CmdFunction(FunctionDecl(variants[i].name, variants[i].types, name,
                                    variants[i].cost))]

\* the rule desugar_rewrite hands to flatten_rule, for the variable var
rewrite_rule(var, rewrite) ==
    Rule(<<FactEq(<<Var(var), rewrite.lhs>>)>> \o rewrite.conditions,
         <<ActUnion(Var(var), rewrite.rhs)>>)

desugar_rewrite_union_lhs(ruleset, name, rewrite, d) ==
    Only({ [d |-> r.d, res |-> <<NCNormRule(ruleset, name, r.rule)>>,
            panic |-> r.panic] :
           r \in {flatten_rule(rewrite_rule(rewrite_var,
                                            Rewrite(rewrite.lhs, rewrite.lhs,
                                                    rewrite.conditions)), d)} })

\* desugar_rewrite (desugar.rs 22-46)
desugar_rewrite(ruleset, name, rewrite, d) ==
    Only({ [d |-> r.d, res |-> <<NCNormRule(ruleset, name, r.rule)>>,
            panic |-> r.panic] :
           r \in {flatten_rule(rewrite_rule(rewrite_var, rewrite), d)} })

desugar_birewrite_no_swap(ruleset, name, rewrite, d) ==
    Only({ Only({ [d |-> r2.d, res |-> r1.res \o r2.res,
                   panic |-> r1.panic \/ r2.panic] :
                  r2 \in {desugar_rewrite(ruleset, name \o <<"<", "=">>, rewrite, r1.d)} }) :
           r1 \in {desugar_rewrite(ruleset, name \o <<"=", ">">>, rewrite, d)} })

\* desugar_birewrite (desugar.rs 48-68)
desugar_birewrite(ruleset, name, rewrite, d) ==
    Only({ Only({ [d |-> r2.d, res |-> r1.res \o r2.res,
                   panic |-> r1.panic \/ r2.panic] :
                  r2 \in {desugar_rewrite(ruleset, name \o <<"<", "=">>,
                              Rewrite(rewrite.rhs, rewrite.lhs, rewrite.conditions),
                              r1.d)} }) :
           r1 \in {desugar_rewrite(ruleset, name \o <<"=", ">">>, rewrite, d)} })

\* desugar_run_config (desugar.rs 455-466)
desugar_run_config(d, run_config) ==
    IF Len(run_config.until) = 0
    THEN [d |-> d, config |-> run_config, panic |-> FALSE]
    ELSE Only({ [d |-> f.d,
                 config |-> RunConfig(run_config.ruleset, run_config.limit,
                                      <<f.facts>>),
                 panic |-> f.panic] :
                f \in {flatten_facts(run_config.until[1], d)} })

RECURSIVE desugar_schedule(_, _)
RECURSIVE desugar_schedules(_, _, _, _)
\* schedules.iter().map(|schedule| desugar_schedule(desugar, schedule))
desugar_schedules(d, schedules, i, out) ==
    IF i > Len(schedules) THEN [d |-> d, schedules |-> out, panic |-> FALSE]
    ELSE Only({ IF r.panic THEN [d |-> r.d, schedules |-> out, panic |-> TRUE]
                ELSE desugar_schedules(r.d, schedules, i + 1,
                                       Append(out, r.schedule)) :
                r \in {desugar_schedule(d, schedules[i])} })

\* desugar_schedule (desugar.rs 307-333)
desugar_schedule(d, schedule) ==
    IF schedule.tag = "Run"
    THEN Only({ [d |-> c.d, schedule |-> SchedRun(c.config), panic |-> c.panic] :
                c \in {desugar_run_config(d, schedule.config[1])} })
    ELSE Only({ [d |-> r.d,
                 schedule |-> [schedule EXCEPT !.schedules = r.schedules],
                 panic |-> r.panic] :
                r \in {desugar_schedules(d, schedule.schedules, 1, <<>>)} })

RECURSIVE semi_naive_loop(_, _, _)
\* the loop over the head of add_semi_naive_rule (desugar.rs 340-363)
semi_naive_loop(head, i, st) ==
    IF i > Len(head) THEN st
    ELSE IF head[i].tag = "Set" /\ head[i].rhs[1].tag = "Call"
    THEN Only({ semi_naive_loop(head, i + 1,
                    [d |-> fr.d,
                     body |-> Append(st.body,
                                     FactEq(<<Var(fr.name), head[i].rhs[1]>>)),
                     head |-> Append(st.head,
                                     [head[i] EXCEPT !.rhs = <<Var(fr.name)>>]),
                     add_new_rule |-> TRUE]) :
                fr \in {get_fresh(st.d)} })
    ELSE IF head[i].tag = "Let"
    THEN semi_naive_loop(head, i + 1,
             [st EXCEPT !.body = Append(@, FactEq(<<Var(head[i].sym),
                                                    head[i].rhs[1]>>)),
                        !.head = Append(@, head[i])])
    ELSE semi_naive_loop(head, i + 1, [st EXCEPT !.head = Append(@, head[i])])

add_semi_naive_rule_keep_lets(d, rule) ==
    Only({ [d |-> st.d,
            rule |-> IF st.add_new_rule THEN <<Rule(st.body, st.head)>> ELSE <<>>] :
           st \in {semi_naive_loop(rule.head, 1,
                      [d |-> d, body |-> rule.body, head |-> <<>>,
                       add_new_rule |-> FALSE])} })

\* add_semi_naive_rule (desugar.rs 335-375); the result is an Option
add_semi_naive_rule(d, rule) ==
    Only({ [d |-> st.d,
            rule |-> IF st.add_new_rule
                     THEN <<Rule(st.body,
                                 SelectSeq(st.head, LAMBDA a : a.tag # "Let"))>>
                     ELSE <<>>] :
           st \in {semi_naive_loop(rule.head, 1,
                      [d |-> d, body |-> rule.body, head |-> <<>>,
                       add_new_rule |-> FALSE])} })

\* Desugar::declare (desugar.rs 810-826)
declare(d, name, sort) ==
    Only({ [d |-> fr.d,
            res |-> <<CmdFunction(FunctionDecl(fr.name, <<>>, sort, <<HIGH_COST>>)),
                      NCNormAction(NLet(name, NormCall(fr.name, <<>>)))>>] :
           fr \in {get_fresh(d)} })

RECURSIVE desugar_command(_, _, _, _)
RECURSIVE desugar_commands_loop(_, _, _, _, _)

RECURSIVE declare_idents(_, _, _, _)
\* the first loop of desugar_calc (desugar.rs 410-412)
declare_idents(idents, i, d, res) ==
    IF i > Len(idents) THEN [d |-> d, res |-> res]
    ELSE Only({ declare_idents(idents, i + 1, r.d, res \o r.res) :
                r \in {declare(d, idents[i].ident, idents[i].sort)} })

\* the NormActions of a list as NCommands
as_ncommands(actions) == [j \in 1..Len(actions) |-> NCNormAction(actions[j])]

\* .into_iter().map(|c| c.command): the NCommands without their ids
commands_of(cmds) == [j \in 1..Len(cmds) |-> cmds[j].command]

calc_schedule_no_until(expr1, expr2) ==
    CmdRunSchedule(SchedSaturate(SchedRun(RunConfig(sym_empty, 1, <<>>))))

\* the command desugar_calc runs between two expressions (desugar.rs 429-433)
calc_schedule(expr1, expr2) ==
    CmdRunSchedule(SchedSaturate(SchedRun(
        RunConfig(sym_empty, 1, <<<<FactEq(<<expr1, expr2>>)>>>>))))

RECURSIVE calc_windows(_, _, _, _)
\* the loop over exprs.windows(2) of desugar_calc (desugar.rs 415-446); the
\* NormCommands of the nested desugar_command lose their ids
calc_windows(exprs, i, st, seminaive_transform) ==
    IF i + 1 > Len(exprs) \/ st.panic THEN st
    ELSE Only({ Only({ Only({ calc_windows(exprs, i + 1,
                [d |-> run.d,
                 res |-> st.res \o <<CmdPush(1)>>
                         \o as_ncommands(v2.st.res)
                         \o commands_of(run.cmds)
                         \o <<NCCheck(<<ConstrainEq(v1.name, v2.name)>>), CmdPop(1)>>,
                 panic |-> run.result # "Ok"],
                seminaive_transform) :
            run \in {desugar_command(calc_schedule(exprs[i], exprs[i + 1]),
                                     v2.st.d, FALSE, seminaive_transform)} }) :
            v2 \in {expr_to_flat_actions(exprs[i + 1], v1.st)} }) :
            v1 \in {expr_to_flat_actions(exprs[i], FlatState(st.d))} })

\* desugar_calc (desugar.rs 401-449)
desugar_calc(d, idents, exprs, seminaive_transform) ==
    Only({ calc_windows(exprs, 1, [d |-> decl.d, res |-> decl.res, panic |-> FALSE],
                        seminaive_transform) :
           decl \in {declare_idents(idents, 1, d, <<>>)} })

\* the Rule arm of desugar_command (desugar.rs 507-533) once the name is
\* settled
desugar_rule(ruleset, name, rule, d, seminaive_transform) ==
    Only({ IF r1.panic \/ ~seminaive_transform
           THEN [d |-> r1.d, res |-> <<NCNormRule(ruleset, name, r1.rule)>>,
                 panic |-> r1.panic]
           ELSE Only({ IF Len(sn.rule) = 0
                       THEN [d |-> sn.d, res |-> <<NCNormRule(ruleset, name, r1.rule)>>,
                             panic |-> FALSE]
                       ELSE Only({ [d |-> r2.d,
                                    res |-> <<NCNormRule(ruleset, name, r1.rule),
                                              NCNormRule(ruleset, name, r2.rule)>>,
                                    panic |-> r2.panic] :
                                   r2 \in {flatten_rule(sn.rule[1], sn.d)} }) :
                       sn \in {add_semi_naive_rule(r1.d, rule)} }) :
           r1 \in {flatten_rule(rule, d)} })

\* the Simplify and Extract arms of desugar_command (desugar.rs 563-594) up
\* to their last NCommand: a fresh name, then Let(fresh, expr) flattened
let_fresh(expr, d) ==
    Only({ Only({ [d |-> r.d, res |-> as_ncommands(r.actions), panic |-> r.panic,
                   fresh |-> fr.name] :
                  r \in {flatten_actions(<<ActLet(fr.name, expr)>>, fr.d)} }) :
           fr \in {get_fresh(d)} })

\* the match of desugar_command (desugar.rs 474-691) for every arm that
\* does not return early: the NCommands before they get their ids
ncommands(command, d, seminaive_transform) ==
    CASE command.tag \in PassedThrough ->
            [d |-> d, res |-> <<command>>, panic |-> FALSE]
      [] command.tag = "Run" ->
            Only({ [d |-> c.d, res |-> <<NCRunSchedule(SchedRun(c.config))>>,
                    panic |-> c.panic] :
                   c \in {desugar_run_config(d, command.config)} })
      [] command.tag = "Declare" ->
            Only({ [d |-> r.d, res |-> r.res, panic |-> FALSE] :
                   r \in {declare([d EXCEPT !.global_variables = @ \cup {command.name}],
                                  command.name, command.sort)} })
      [] command.tag = "Datatype" ->
            [d |-> d, res |-> desugar_datatype(command.name, command.variants),
             panic |-> FALSE]
      [] command.tag = "Rewrite" ->
            desugar_rewrite(command.ruleset, rewrite_name(command.rewrite),
                            command.rewrite, d)
      [] command.tag = "BiRewrite" ->
            desugar_birewrite(command.ruleset, rewrite_name(command.rewrite),
                              command.rewrite, d)
      [] command.tag = "Rule" ->
            desugar_rule(command.ruleset,
                         IF command.name = sym_empty
                         THEN replace_quotes(rule_to_string(command.surface_rule))
                         ELSE command.name,
                         command.surface_rule, d, seminaive_transform)
      [] command.tag = "Define" ->
            Only({ [d |-> r.st.d,
                    res |-> as_ncommands(Append(r.st.res,
                                                NLetVar(command.name, r.name))),
                    panic |-> FALSE] :
                   r \in {expr_to_flat_actions(command.expr,
                             FlatState([d EXCEPT !.global_variables =
                                                     @ \cup {command.name}]))} })
      [] command.tag = "Action" ->
            Only({ [d |-> r.d, res |-> as_ncommands(r.actions), panic |-> r.panic] :
                   r \in {flatten_actions(<<command.action>>,
                             IF command.action.tag = "Let"
                             THEN [d EXCEPT !.global_variables =
                                                @ \cup {command.action.sym}]
                             ELSE d)} })
      [] command.tag = "Simplify" ->
            Only({ IF r.panic THEN [d |-> r.d, res |-> <<>>, panic |-> TRUE]
                   ELSE Only({ [d |-> c.d,
                                res |-> Append(r.res, NCSimplify(r.fresh, c.config)),
                                panic |-> c.panic] :
                               c \in {desugar_run_config(r.d, command.config)} }) :
                   r \in {let_fresh(command.expr, d)} })
      [] command.tag = "Calc" ->
            desugar_calc(d, command.idents, command.exprs, seminaive_transform)
      [] command.tag = "RunSchedule" ->
            Only({ [d |-> r.d, res |-> <<NCRunSchedule(r.schedule)>>,
                    panic |-> r.panic] :
                   r \in {desugar_schedule(d, command.schedule)} })
      [] command.tag = "Extract" ->
            Only({ [d |-> r.d,
                    res |-> Append(r.res, NCExtract(command.nvariants, r.fresh)),
                    panic |-> r.panic] :
                   r \in {let_fresh(command.expr, d)} })
      [] command.tag = "Check" ->
            Only({ [d |-> r.d, res |-> <<NCCheck(r.facts)>>, panic |-> r.panic] :
                   r \in {flatten_facts(command.facts, d)} })

RECURSIVE with_ids(_, _, _, _)
\* the closing map of desugar_command (desugar.rs 693-701)
with_ids(res, i, d, out) ==
    IF i > Len(res) THEN [d |-> d, cmds |-> out]
    ELSE Only({ with_ids(res, i + 1, r.d, Append(out, NormCommand(r.id, res[i]))) :
                r \in {get_new_id(d)} })

\* the Fail arm of desugar_command (desugar.rs 675-684) applied to what the
\* wrapped command desugared to
fail_last(r) ==
    IF r.result # "Ok" THEN r
    ELSE IF Len(r.cmds) = 0 THEN [d |-> r.d, cmds |-> <<>>, result |-> "Panic"]
    ELSE [d |-> r.d,
          cmds |-> Append(SubSeq(r.cmds, 1, Len(r.cmds) - 1),
                          [metadata |-> r.cmds[Len(r.cmds)].metadata,
                           command |-> NCFail(r.cmds[Len(r.cmds)].command)]),
          result |-> "Ok"]

\* desugar_command (desugar.rs 468-702); result is Ok, Err or Panic
desugar_command(command, d, get_all_proofs, seminaive_transform) ==
    CASE command.tag = "Include" ->
            IF command.file \notin ReadableFiles
            THEN [d |-> d, cmds |-> <<>>, result |-> "Panic"]
            ELSE IF ~parse_program(command.file).ok
            THEN [d |-> d, cmds |-> <<>>, result |-> "Err"]
            ELSE desugar_commands_loop(parse_program(command.file).program, 1, d,
                                       <<>>, <<get_all_proofs, seminaive_transform>>)
      [] command.tag = "Fail" ->
            fail_last(desugar_command(command.inner, d, FALSE, seminaive_transform))
      [] OTHER ->
            Only({ IF r.panic THEN [d |-> r.d, cmds |-> <<>>, result |-> "Panic"]
                   ELSE Only({ [d |-> w.d, cmds |-> w.cmds, result |-> "Ok"] :
                               w \in {with_ids(r.res, 1, r.d, <<>>)} }) :
                   r \in {ncommands(command, d, seminaive_transform)} })

\* the loop of desugar_commands (desugar.rs 711-714)
desugar_commands_loop(program, i, d, res, flags) ==
    IF i > Len(program) THEN [d |-> d, cmds |-> res, result |-> "Ok"]
    ELSE Only({ IF r.result # "Ok"
                THEN [d |-> r.d, cmds |-> <<>>, result |-> r.result]
                ELSE desugar_commands_loop(program, i + 1, r.d, res \o r.cmds, flags) :
                r \in {desugar_command(program[i], d, flags[1], flags[2])} })

\* desugar_commands (desugar.rs 704-716)
desugar_commands(program, d, get_all_proofs, seminaive_transform) ==
    desugar_commands_loop(program, 1, d, <<>>, <<get_all_proofs, seminaive_transform>>)

----------------------------------------------------------------------------
(* TypeInfo: the registry of sorts, primitives, functions and globals.     *)

\* HashMap: the empty map and insert, which replaces the value of a key
EmptyMap == [x \in {} |-> {}]
Put(m, k, v) == [x \in DOMAIN m \cup {k} |-> IF x = k THEN v ELSE m[x]]

sym_Unit == <<"U", "n", "i", "t">>
sym_String == <<"S", "t", "r", "i", "n", "g">>
sym_bool == <<"b", "o", "o", "l">>
sym_i64 == <<"i", "6", "4">>
sym_f64 == <<"f", "6", "4">>
sym_Rational == <<"R", "a", "t", "i", "o", "n", "a", "l">>
sym_Vec == <<"V", "e", "c">>
sym_old == <<"o", "l", "d">>
sym_new == <<"n", "e", "w">>

\* a sort: its name, whether it is an eq-sort, the sorts it is made of
BaseSort(name) == [name |-> name, is_eq_sort |-> FALSE, of |-> <<>>]
EqSort(name) == [name |-> name, is_eq_sort |-> TRUE, of |-> <<>>]
ContainerSort(name, element) == [name |-> name, is_eq_sort |-> FALSE, of |-> <<element>>]

\* the sorts TypeInfo::default adds
DefaultSorts ==
    [n \in {sym_Unit, sym_String, sym_bool, sym_i64, sym_f64, sym_Rational} |->
        BaseSort(n)]

\* the presort factories TypeInfo::default registers
Presorts == {<<"M", "a", "p">>, <<"S", "e", "t">>, sym_Vec}

FuncType(name, input_sorts, output_sort, is_datatype, has_default) ==
    [name |-> name, input |-> input_sorts, output |-> output_sort,
     is_datatype |-> is_datatype, has_default |-> has_default]

\* the fields of a TypeInfo that change after construction
TypeInfo(s, p, f, g) ==
    [sorts |-> s, primitives |-> p, func_types |-> f, global_types |-> g]

\* functions of one argument of sort S declared under the given names
declared(names) ==
    [n \in names |-> FuncType(n, <<EqSort(sym_S)>>, EqSort(sym_S), TRUE, FALSE)]

\* TypeError: the variant, the symbol it names, the expected arity
TypeError(kind, sym, expected) == [kind |-> kind, sym |-> sym, expected |-> expected]
Ok == [tag |-> "Ok", error |-> TypeError("", sym_empty, 0)]
Err(error) == [tag |-> "Err", error |-> error]

\* Sort::register_primitives of an eq-sort or a container sort: the names
\* added to the primitives
register_primitives(sort) == {}

\* TypeInfo::add_arcsort (typechecking.rs 85-96)
add_arcsort(ti, sort) ==
    IF sort.name \in DOMAIN ti.sorts
    THEN [ti |-> ti, result |-> Err(TypeError("SortAlreadyBound", sort.name, 0))]
    ELSE [ti |-> [ti EXCEPT !.sorts = Put(@, sort.name, sort),
                            !.primitives = @ \cup register_primitives(sort)],
          result |-> Ok]

\* the factory of a container sort: its one argument names the sort of the
\* elements
mksort(ti, name, args) ==
    IF Len(args) = 1 /\ args[1].tag = "Var" /\ args[1].head \in DOMAIN ti.sorts
    THEN [sort |-> <<ContainerSort(name, ti.sorts[args[1].head])>>, result |-> Ok]
    ELSE [sort |-> <<>>,
          result |-> Err(TypeError("UndefinedSort",
                                   IF Len(args) > 0 THEN args[1].head ELSE sym_empty, 0))]

declare_sort_eq(ti, name, presort_and_args) ==
    IF name \in DOMAIN ti.func_types
    THEN [ti |-> ti, result |-> Err(TypeError("FunctionAlreadyBound", name, 0))]
    ELSE add_arcsort(ti, EqSort(name))

\* TypeInfo::declare_sort (typechecking.rs 309-330); presort_and_args is an
\* Option of a presort and its arguments
declare_sort(ti, name, presort_and_args) ==
    IF name \in DOMAIN ti.func_types
    THEN [ti |-> ti, result |-> Err(TypeError("FunctionAlreadyBound", name, 0))]
    ELSE IF Len(presort_and_args) = 0 THEN add_arcsort(ti, EqSort(name))
    ELSE IF presort_and_args[1].presort \notin Presorts
    THEN [ti |-> ti,
          result |-> Err(TypeError("PresortNotFound", presort_and_args[1].presort, 0))]
    ELSE Only({ IF made.result.tag = "Err" THEN [ti |-> ti, result |-> made.result]
                ELSE add_arcsort(ti, made.sort[1]) :
                made \in {mksort(ti, name, presort_and_args[1].args)} })

\* the first error of a list of results
first_error(results) ==
    IF \A i \in 1..Len(results) : results[i].tag = "Ok" THEN Ok
    ELSE results[CHOOSE i \in 1..Len(results) :
                    /\ results[i].tag = "Err"
                    /\ \A j \in 1..(i - 1) : results[j].tag = "Ok"]

\* the constraint of one call: a function takes as many arguments as its
\* FuncType has inputs, and a head that is neither a function nor a
\* primitive is unbound
call_result(ti, head, nargs) ==
    IF head \in DOMAIN ti.func_types
    THEN IF nargs = Len(ti.func_types[head].input) THEN Ok
         ELSE Err(TypeError("Arity", head, Len(ti.func_types[head].input)))
    ELSE IF is_primitive(ti.primitives, head) THEN Ok
    ELSE Err(TypeError("UnboundFunction", head, 0))

RECURSIVE expr_results(_, _, _)
\* the results of the constraints of an expression, the children before
\* the call
expr_results(ti, expr, binding) ==
    IF expr.tag = "Lit" THEN <<>>
    ELSE IF expr.tag = "Var"
    THEN IF expr.head \in binding \cup DOMAIN ti.global_types THEN <<>>
         ELSE <<Err(TypeError("Unbound", expr.head, 0))>>
    ELSE Flat([i \in 1..Len(expr.children) |->
                  expr_results(ti, expr.children[i], binding)])
         \o <<call_result(ti, expr.head, Len(expr.children))>>

RECURSIVE expr_vars(_)
\* the variables of an expression
expr_vars(expr) ==
    IF expr.tag = "Var" THEN {expr.head}
    ELSE IF expr.tag = "Lit" THEN {}
    ELSE UNION {expr_vars(expr.children[i]) : i \in 1..Len(expr.children)}

\* Query::get_vars: every variable of the body is a pattern variable
query_vars(facts) ==
    UNION {UNION {expr_vars(facts[i].args[k]) : k \in 1..Len(facts[i].args)} :
           i \in 1..Len(facts)}

\* the results of the constraints of a list of actions: an action sees the
\* binding and the variables of the Lets before it
actions_results(ti, actions, binding) ==
    Flat([i \in 1..Len(actions) |->
            Flat([k \in 1..Len(actions[i].args \o actions[i].rhs) |->
                    expr_results(ti, (actions[i].args \o actions[i].rhs)[k],
                        binding \cup {actions[j].sym : j \in
                                        {j \in 1..(i - 1) : actions[j].tag = "Let"}})])
            \o (IF actions[i].tag \in {"Set", "SetNoTrack", "Delete"}
                THEN <<call_result(ti, actions[i].sym, Len(actions[i].args))>>
                ELSE <<>>)])

\* TypeInfo::typecheck_actions (typechecking.rs 379-404)
typecheck_actions(ti, actions, binding) ==
    first_error(actions_results(ti, actions, binding))

\* TypeInfo::typecheck_action (typechecking.rs 419-429)
typecheck_action(ti, action, binding) == typecheck_actions(ti, <<action>>, binding)

\* TypeInfo::typecheck_expr (typechecking.rs 406-417): the expression is
\* checked as the action Let($$result, expr)
typecheck_expr(ti, expr, binding) ==
    typecheck_action(ti, ActLet(<<"$", "$", "r", "e", "s", "u", "l", "t">>, expr), binding)

\* the results of the constraints of a query
facts_results(ti, facts) ==
    Flat([i \in 1..Len(facts) |->
            Flat([k \in 1..Len(facts[i].args) |->
                    expr_results(ti, facts[i].args[k], query_vars(facts))])])

\* TypeInfo::typecheck_facts (typechecking.rs 367-377)
typecheck_facts(ti, facts) == first_error(facts_results(ti, facts))

\* a rule that stops at the first error of its head and never looks at its
\* body
typecheck_rule_head_only(ti, rule) ==
    typecheck_actions(ti, rule.head, query_vars(rule.body))

\* TypeInfo::typecheck_rule (typechecking.rs 332-365): the constraints of
\* the body, then those of the head under the variables of the body
typecheck_rule(ti, rule) ==
    first_error(facts_results(ti, rule.body)
                \o actions_results(ti, rule.head, query_vars(rule.body)))

RECURSIVE schedule_results(_, _)
\* the results of the until facts of a schedule, in order
schedule_results(ti, schedule) ==
    IF schedule.tag = "Run"
    THEN IF Len(schedule.config[1].until) = 0 THEN <<>>
         ELSE <<typecheck_facts(ti, schedule.config[1].until[1])>>
    ELSE Flat([i \in 1..Len(schedule.schedules) |->
                  schedule_results(ti, schedule.schedules[i])])

\* TypeInfo::typecheck_schedule (typechecking.rs 276-307)
typecheck_schedule(ti, schedule) == first_error(schedule_results(ti, schedule))

\* TypeInfo::function_to_functype (typechecking.rs 137-166)
function_to_functype(ti, func) ==
    IF \E i \in 1..Len(func.schema.input) : func.schema.input[i] \notin DOMAIN ti.sorts
    THEN [ftype |-> <<>>,
          result |-> Err(TypeError("Unbound",
              func.schema.input[CHOOSE i \in 1..Len(func.schema.input) :
                  /\ func.schema.input[i] \notin DOMAIN ti.sorts
                  /\ \A j \in 1..(i - 1) : func.schema.input[j] \in DOMAIN ti.sorts],
              0))]
    ELSE IF func.schema.output \notin DOMAIN ti.sorts
    THEN [ftype |-> <<>>, result |-> Err(TypeError("Unbound", func.schema.output, 0))]
    ELSE [ftype |-> <<FuncType(func.name,
                               [i \in 1..Len(func.schema.input) |->
                                   ti.sorts[func.schema.input[i]]],
                               ti.sorts[func.schema.output],
                               /\ ti.sorts[func.schema.output].is_eq_sort
                               /\ func.merge = <<>>
                               /\ func.default = <<>>,
                               func.default # <<>>)>>,
          result |-> Ok]

\* the rest of typecheck_function once the FuncType is in func_types
\* (typechecking.rs 253-273): merge, default, merge_action
function_body_result(ti, fdecl) ==
    first_error(
        (IF fdecl.merge = <<>> THEN <<>>
         ELSE <<typecheck_expr(ti, fdecl.merge[1], {sym_old, sym_new})>>)
        \o (IF fdecl.default = <<>> THEN <<>>
            ELSE <<typecheck_expr(ti, fdecl.default[1], {})>>)
        \o <<typecheck_actions(ti, fdecl.merge_action, {sym_old, sym_new})>>)

\* TypeInfo::typecheck_function (typechecking.rs 239-274): insert puts the
\* new FuncType in func_types before the name is found bound and before
\* merge, default and merge_action are checked
typecheck_function(ti, fdecl) ==
    IF fdecl.name \in DOMAIN ti.sorts
    THEN [ti |-> ti, result |-> Err(TypeError("SortAlreadyBound", fdecl.name, 0))]
    ELSE IF is_primitive(ti.primitives, fdecl.name)
    THEN [ti |-> ti, result |-> Err(TypeError("PrimitiveAlreadyBound", fdecl.name, 0))]
    ELSE Only({ IF ft.result.tag = "Err" THEN [ti |-> ti, result |-> ft.result]
                ELSE IF fdecl.name \in DOMAIN ti.func_types
                THEN [ti |-> [ti EXCEPT !.func_types = Put(@, fdecl.name, ft.ftype[1])],
                      result |-> Err(TypeError("FunctionAlreadyBound", fdecl.name, 0))]
                ELSE [ti |-> [ti EXCEPT !.func_types = Put(@, fdecl.name, ft.ftype[1])],
                      result |-> function_body_result(
                                     [ti EXCEPT !.func_types =
                                         Put(@, fdecl.name, ft.ftype[1])],
                                     fdecl)] :
                ft \in {function_to_functype(ti, fdecl)} })

\* the NCommand variants the type resolver sees with a rule and an action
\* that still hold expressions
NCRule(ruleset, name, rule) ==
    [tag |-> "NormRule", ruleset |-> ruleset, name |-> name, surface_rule |-> rule]
NCAction(action) == [tag |-> "NormAction", action |-> action]

\* ResolvedExpr::output_type: the output sort of the function called, the
\* sort of a global, the sort of a literal, i64 for what the model leaves to
\* the primitives
output_type(ti, expr) ==
    IF expr.tag = "Call" /\ expr.head \in DOMAIN ti.func_types
    THEN ti.func_types[expr.head].output
    ELSE IF expr.tag = "Var" /\ expr.head \in DOMAIN ti.global_types
    THEN ti.global_types[expr.head]
    ELSE IF expr.tag = "Lit" /\ expr.head[1] = "String" THEN BaseSort(sym_String)
    ELSE IF expr.tag = "Lit" /\ expr.head[1] = "F64" THEN BaseSort(sym_f64)
    ELSE BaseSort(sym_i64)

RECURSIVE typecheck_command(_, _)
\* TypeInfo::typecheck_command (typechecking.rs 168-237)
typecheck_command(ti, command) ==
    IF command.tag = "Function" THEN typecheck_function(ti, command.fdecl)
    ELSE IF command.tag = "NormRule"
    THEN [ti |-> ti, result |-> typecheck_rule(ti, command.surface_rule)]
    ELSE IF command.tag = "Sort" THEN declare_sort(ti, command.name, command.presort)
    ELSE IF command.tag = "NormAction" /\ command.action.tag = "Let"
    THEN Only({ IF r.tag = "Err" THEN [ti |-> ti, result |-> r]
                ELSE [ti |-> [ti EXCEPT !.global_types =
                                 Put(@, command.action.sym,
                                     output_type(ti, command.action.rhs[1]))],
                      result |-> Ok] :
                r \in {typecheck_expr(ti, command.action.rhs[1], {})} })
    ELSE IF command.tag = "NormAction"
    THEN [ti |-> ti, result |-> typecheck_action(ti, command.action, {})]
    ELSE IF command.tag = "Check"
    THEN [ti |-> ti, result |-> typecheck_facts(ti, command.facts)]
    ELSE IF command.tag = "Fail" THEN typecheck_command(ti, command.inner)
    ELSE IF command.tag = "RunSchedule"
    THEN [ti |-> ti, result |-> typecheck_schedule(ti, command.schedule)]
    ELSE IF command.tag = "SetOption"
    THEN [ti |-> ti, result |-> typecheck_expr(ti, command.expr, {})]
    ELSE IF command.tag = "Output"
    THEN [ti |-> ti,
          result |-> first_error([i \in 1..Len(command.exprs) |->
                                     typecheck_expr(ti, command.exprs[i], {})])]
    ELSE [ti |-> ti, result |-> Ok]

RECURSIVE typecheck_program(_, _)
\* TypeInfo::typecheck_program (typechecking.rs 125-135): the first error
\* ends the run
typecheck_program(ti, program) ==
    IF Len(program) = 0 THEN [ti |-> ti, result |-> Ok]
    ELSE Only({ IF r.result.tag = "Err" THEN r
                ELSE typecheck_program(r.ti, Tail(program)) :
                r \in {typecheck_command(ti, program[1])} })

----------------------------------------------------------------------------
(* The symbols a user wrote in a command.                                  *)

RECURSIVE expr_symbols(_)
expr_symbols(e) ==
    CASE e.tag = "Lit" -> {}
      [] e.tag = "Var" -> {e.head}
      [] e.tag = "Call" ->
            {e.head} \cup UNION {expr_symbols(e.children[i]) : i \in 1..Len(e.children)}

exprs_symbols(exprs) == UNION {expr_symbols(exprs[i]) : i \in 1..Len(exprs)}

facts_symbols(facts) == UNION {exprs_symbols(facts[i].args) : i \in 1..Len(facts)}

action_symbols(action) ==
    (IF action.tag \in {"Let", "Set", "SetNoTrack", "Delete"} THEN {action.sym} ELSE {})
    \cup exprs_symbols(action.args) \cup exprs_symbols(action.rhs)

actions_symbols(actions) == UNION {action_symbols(actions[i]) : i \in 1..Len(actions)}

config_symbols(config) ==
    IF Len(config.until) = 0 THEN {} ELSE facts_symbols(config.until[1])

RECURSIVE schedule_symbols(_)
schedule_symbols(schedule) ==
    IF schedule.tag = "Run" THEN config_symbols(schedule.config[1])
    ELSE UNION {schedule_symbols(schedule.schedules[i]) :
                   i \in 1..Len(schedule.schedules)}

RECURSIVE command_symbols(_)
command_symbols(c) ==
    CASE c.tag \in {"Rewrite", "BiRewrite"} ->
            expr_symbols(c.rewrite.lhs) \cup expr_symbols(c.rewrite.rhs)
            \cup facts_symbols(c.rewrite.conditions)
      [] c.tag = "Rule" ->
            facts_symbols(c.surface_rule.body) \cup actions_symbols(c.surface_rule.head)
      [] c.tag = "Declare" -> {c.name, c.sort}
      [] c.tag = "Datatype" ->
            {c.name} \cup {c.variants[i].name : i \in 1..Len(c.variants)}
      [] c.tag = "Define" -> {c.name} \cup expr_symbols(c.expr)
      [] c.tag = "Action" -> action_symbols(c.action)
      [] c.tag = "Simplify" -> expr_symbols(c.expr) \cup config_symbols(c.config)
      [] c.tag = "Extract" -> expr_symbols(c.expr)
      [] c.tag = "Calc" ->
            {c.idents[i].ident : i \in 1..Len(c.idents)} \cup exprs_symbols(c.exprs)
      [] c.tag = "Run" -> config_symbols(c.config)
      [] c.tag = "RunSchedule" -> schedule_symbols(c.schedule)
      [] c.tag = "Check" -> facts_symbols(c.facts)
      [] c.tag = "Include" ->
            LET program == parse_program(c.file).program
            IN UNION {command_symbols(program[i]) : i \in 1..Len(program)}
      [] c.tag = "Fail" -> command_symbols(c.inner)
      [] c.tag \in {"Sort", "AddRuleset", "PrintSize", "Print"} -> {c.name}
      [] c.tag = "Function" -> {c.fdecl.name}
      [] OTHER -> {}

----------------------------------------------------------------------------
(* The programs the checks run on.                                         *)

\* variables and the literal
ExprAtoms == {Var(sym_a), Var(sym_b), Lit(lit_one)}

\* calls of the user function f and of the primitive + on an atom, and
\* calls of the binary user function add on variables
ExprCalls1 ==
    {Call(h, <<t>>) : h \in {sym_f, sym_plus}, t \in {Var(sym_a), Lit(lit_one)}}
    \cup {Call(sym_add, <<Var(sym_a), Var(sym_b)>>),
          Call(sym_add, <<Var(sym_b), Var(sym_a)>>),
          Call(sym_add, <<Var(sym_a), Var(sym_a)>>)}

\* calls with a nested call
ExprCalls2 ==
    {Call(h, <<c>>) : h \in {sym_f, sym_plus},
                      c \in {Call(sym_f, <<Var(sym_a)>>),
                             Call(sym_plus, <<Var(sym_a)>>),
                             Call(sym_f, <<Lit(lit_one)>>)}}

BodyFacts ==
    {FactFact(c) : c \in ExprCalls1 \cup ExprCalls2}
    \cup {FactEq(<<Var(v), e>>) : v \in {sym_a, sym_b},
                                 e \in ExprAtoms \cup ExprCalls1}
    \cup {FactEq(<<c, Var(sym_b)>>) : c \in {Call(sym_f, <<Var(sym_a)>>),
                                            Call(sym_plus, <<Var(sym_a)>>)}}
    \cup {FactEq(<<Call(sym_f, <<Var(sym_a)>>), c>>) :
             c \in {Call(sym_f, <<Var(sym_b)>>), Call(sym_plus, <<Var(sym_a)>>),
                    Lit(lit_one)}}

\* bodies with an equality of three and of four expressions
WideEqBodies ==
    { <<FactEq(<<Var(sym_a), Var(sym_b), Call(sym_f, <<Var(sym_a)>>)>>)>>,
      <<FactFact(Call(sym_f, <<Var(sym_a)>>)),
        FactEq(<<Call(sym_f, <<Var(sym_a)>>), Var(sym_b), Lit(lit_one)>>)>>,
      <<FactEq(<<Var(sym_a), Var(sym_b), Var(sym_a), Var(sym_b)>>)>> }

\* bodies of at most two facts, and the wide equalities
Bodies ==
    {<<>>} \cup {<<x>> : x \in BodyFacts} \cup {<<x, y>> : x, y \in BodyFacts}
    \cup WideEqBodies

\* bodies binding a and b, for the rules that have a head
HeadBodies ==
    { <<FactFact(Call(sym_add, <<Var(sym_a), Var(sym_b)>>))>>,
      <<FactEq(<<Var(sym_a), Call(sym_f, <<Var(sym_b)>>)>>)>>,
      <<FactEq(<<Var(sym_a), Call(sym_f, <<Var(sym_b)>>)>>),
        FactEq(<<Var(sym_a), Call(sym_plus, <<Var(sym_b)>>)>>)>>,
      <<FactFact(Call(sym_add, <<Var(sym_a), Var(sym_b)>>)),
        FactFact(Call(sym_plus, <<Call(sym_f, <<Var(sym_a)>>)>>))>> }

HeadExprs ==
    ExprAtoms \cup {Call(sym_f, <<Var(sym_a)>>), Call(sym_f, <<Lit(lit_one)>>),
                    Call(sym_f, <<Call(sym_f, <<Lit(lit_one)>>)>>),
                    Call(sym_plus, <<Call(sym_f, <<Var(sym_a)>>), Lit(lit_one)>>)}

HeadActions ==
    {ActUnion(l, r) : l \in {Var(sym_a), Call(sym_f, <<Lit(lit_one)>>)}, r \in HeadExprs}
    \cup {ActLet(<<"c">>, e) : e \in HeadExprs}
    \cup {ActSet(sym_f, <<l>>, r) : l \in {Var(sym_a), Lit(lit_one)},
                                    r \in {Lit(lit_one), Call(sym_f, <<Lit(lit_one)>>)}}
    \cup {ActSetNoTrack(sym_f, <<Lit(lit_one)>>, Lit(lit_one)),
          ActDelete(sym_f, <<Call(sym_f, <<Lit(lit_one)>>)>>),
          ActDelete(sym_f, <<Var(<<"c">>)>>),
          ActExpr(Call(sym_f, <<Call(sym_f, <<Lit(lit_one)>>)>>)),
          ActExpr(Var(<<"c">>)),
          ActPanic(<<"m">>)}

\* heads of at most two actions
Heads ==
    {<<>>} \cup {<<x>> : x \in HeadActions} \cup {<<x, y>> : x, y \in HeadActions}

Rules ==
    {Rule(body, <<>>) : body \in Bodies}
    \cup {Rule(body, <<x>>) : body \in HeadBodies, x \in HeadActions}

\* the registries a flattening may run beside: every function declared, f
\* not declared, f registered as a primitive after construction
Registries ==
    { [primitives |-> DefaultPrimitives, func_types |-> {sym_f, sym_add}],
      [primitives |-> DefaultPrimitives, func_types |-> {sym_add}],
      [primitives |-> DefaultPrimitives \cup {sym_f}, func_types |-> {sym_add}] }

NoOutput == [kind |-> "none"]

D == Desugar(next_fresh, next_command_id, number_underscores, global_variables)

----------------------------------------------------------------------------
(* Flattening one rule from any starting Desugar state.                    *)

InitRule ==
    /\ next_fresh \in 0..MaxFresh0
    /\ next_command_id = 0
    /\ number_underscores = 3
    /\ global_variables \in {{}, {sym_a}}
    /\ \E r \in Registries :
          primitives = r.primitives /\ func_types = declared(r.func_types)
    /\ sorts = Put(DefaultSorts, sym_S, EqSort(sym_S))
    /\ global_types = EmptyMap
    /\ input \in {[kind |-> "rule", rule |-> r] : r \in Rules}
    /\ output = NoOutput
    /\ pre = D
    /\ generated = <<>>
    /\ user_symbols = {}
    /\ emitted = <<>>
    /\ ncmds = 0
    /\ status = "ok"

\* flatten_rule applied to the rule drawn
FlattenRule ==
    /\ input.kind = "rule"
    /\ output = NoOutput
    /\ \E r \in {flatten_rule(input.rule, D)} :
          /\ output' = [kind |-> "rule", rule |-> r.rule, flat_facts |-> r.flat_facts]
          /\ next_fresh' = r.d.next_fresh
          /\ status' = IF r.panic THEN "panic" ELSE "ok"
    /\ UNCHANGED <<next_command_id, number_underscores, global_variables,
                   sorts, primitives, func_types, global_types, input, pre,
                   generated, user_symbols, emitted, ncmds>>

NextRule == FlattenRule

SpecRule == InitRule /\ [][NextRule]_vars

----------------------------------------------------------------------------
(* Properties of one flattened rule.                                       *)

\* the rule flatten_rule returned without a failed assertion
RuleFlattened == output.kind = "rule" /\ status = "ok"

BindingFacts == {"Assign", "Compute", "AssignLit"}

\* the symbols written in a surface rule
rule_symbols(rule) == facts_symbols(rule.body) \cup actions_symbols(rule.head)

\* the names the desugarer introduced into the rule it returned
IsGenerated(name) == name \notin rule_symbols(input.rule)

\* C1 as stated: in the body flatten_rule returns, no symbol occurs twice
\* among the lhs of the Assign, Compute and AssignLit facts and the first
\* arguments of the ConstrainEq facts.
C1_Original ==
    RuleFlattened =>
        \A i, j \in 1..Len(output.rule.body) :
            i # j => output.rule.body[i].lhs # output.rule.body[j].lhs

\* C1: in the body flatten_rule returns, no symbol is the lhs of two of the
\* Assign, Compute and AssignLit facts.
C1_BindersUnique ==
    RuleFlattened =>
        \A i, j \in 1..Len(output.rule.body) :
            (/\ i # j
             /\ output.rule.body[i].tag \in BindingFacts
             /\ output.rule.body[j].tag \in BindingFacts)
            => output.rule.body[i].lhs # output.rule.body[j].lhs

\* a body in which the unique-name pass renamed a binding occurrence and
\* which holds at least two binding facts
C1_Witness ==
    /\ RuleFlattened
    /\ output.rule.body # output.flat_facts
    /\ \E i, j \in 1..Len(output.rule.body) :
          /\ i < j
          /\ output.rule.body[i].tag \in BindingFacts
          /\ output.rule.body[j].tag \in BindingFacts
    /\ \E i \in 1..Len(output.rule.body) :
          /\ output.rule.body[i].tag = "ConstrainEq"
          /\ \E j \in 1..Len(output.rule.body) :
                /\ output.rule.body[j].tag \in BindingFacts
                /\ output.rule.body[j].lhs = output.rule.body[i].lhs

\* the names a body fact reads when every argument of a NormExpr is a use
fact_uses(fact) ==
    {fact.args[k] : k \in 1..Len(fact.args)}

\* the names an action reads: the arguments of the NormExpr of Let, Set and
\* Delete, the value of Set, both sides of Union, the source of LetVar
action_uses(action) ==
    {action.args[k] : k \in 1..Len(action.args)}
    \cup (IF action.tag \in {"Set", "Union"} THEN {action.lhs} ELSE {})

\* the names the first n facts of a body define: every lhs
defined_before(body, n) == {body[k].lhs : k \in 1..n}

\* the names the first n actions of a head define
let_before(head, n) ==
    {head[k].lhs : k \in {m \in 1..n : head[m].tag \in {"Let", "LetLit", "LetVar"}}}

bound_before(body, n) ==
    {body[k].lhs : k \in {m \in 1..n : body[m].tag \in BindingFacts}}
    \cup UNION {fact_uses(body[k]) : k \in {m \in 1..n : body[m].tag = "Assign"}}

C4_Original ==
    RuleFlattened =>
        \A i \in 1..Len(output.flat_facts) :
            /\ output.flat_facts[i].tag = "Compute"
                  => is_primitive(primitives, output.flat_facts[i].head)
            /\ output.flat_facts[i].tag = "Assign"
                  => /\ output.flat_facts[i].head \in DOMAIN func_types
                     /\ ~is_primitive(primitives, output.flat_facts[i].head)

RECURSIVE SumOver(_)
\* the sum of a list of numbers
SumOver(ns) == IF Len(ns) = 0 THEN 0 ELSE ns[1] + SumOver(Tail(ns))

RECURSIVE calls_with_head(_, _)
\* the calls of an expression whose head is in a set of symbols
calls_with_head(e, heads) ==
    IF e.tag # "Call" THEN 0
    ELSE (IF e.head \in heads THEN 1 ELSE 0)
         + SumOver([k \in 1..Len(e.children) |-> calls_with_head(e.children[k], heads)])

\* the function symbols the rules are written with
AllHeads == {sym_f, sym_g, sym_add, sym_plus}

\* the calls in a body whose head is in a set of symbols
body_calls(body, heads) ==
    SumOver([k \in 1..Len(body) |->
                SumOver([m \in 1..Len(body[k].args) |->
                            calls_with_head(body[k].args[m], heads)])])

\* C4: the head of every Compute is a primitive of a registry built by
\* TypeInfo::default, the head of every Assign is not, and the body holds
\* one Compute for every call of such a primitive and one Assign for every
\* other call.
C4_DefaultRegistryDispatch ==
    RuleFlattened =>
        /\ \A i \in 1..Len(output.flat_facts) :
              /\ output.flat_facts[i].tag = "Compute"
                    => output.flat_facts[i].head \in DefaultPrimitives
              /\ output.flat_facts[i].tag = "Assign"
                    => output.flat_facts[i].head \notin DefaultPrimitives
        /\ Cardinality({i \in 1..Len(output.flat_facts) :
                            output.flat_facts[i].tag = "Compute"})
           = body_calls(input.rule.body, DefaultPrimitives)
        /\ Cardinality({i \in 1..Len(output.flat_facts) :
                            output.flat_facts[i].tag = "Assign"})
           = body_calls(input.rule.body, AllHeads \ DefaultPrimitives)

\* a flattened body holding a Compute and an Assign
C4_Witness ==
    /\ RuleFlattened
    /\ \E i, j \in 1..Len(output.flat_facts) :
          /\ output.flat_facts[i].tag = "Compute"
          /\ output.flat_facts[j].tag = "Assign"

----------------------------------------------------------------------------
(* Flattening one list of actions from any starting Desugar state.         *)

InitActions ==
    /\ next_fresh \in 0..MaxFresh0
    /\ next_command_id = 0
    /\ number_underscores = 3
    /\ global_variables = {}
    /\ sorts = Put(DefaultSorts, sym_S, EqSort(sym_S))
    /\ primitives = DefaultPrimitives
    /\ func_types = declared({sym_f})
    /\ global_types = EmptyMap
    /\ input \in {[kind |-> "actions", actions |-> h] : h \in Heads}
    /\ output = NoOutput
    /\ pre = D
    /\ generated = <<>>
    /\ user_symbols = {}
    /\ emitted = <<>>
    /\ ncmds = 0
    /\ status = "ok"

\* flatten_actions applied to the list drawn
FlattenActions ==
    /\ input.kind = "actions"
    /\ output = NoOutput
    /\ \E r \in {flatten_actions(input.actions, D)} :
          /\ output' = [kind |-> "actions", actions |-> r.actions]
          /\ next_fresh' = r.d.next_fresh
          /\ status' = IF r.panic THEN "panic" ELSE "ok"
    /\ UNCHANGED <<next_command_id, number_underscores, global_variables,
                   sorts, primitives, func_types, global_types, input, pre,
                   generated, user_symbols, emitted, ncmds>>

NextActions == FlattenActions

SpecActions == InitActions /\ [][NextActions]_vars

\* the list flatten_actions returned without a failed assertion
ActionsFlattened == output.kind = "actions" /\ status = "ok"

RECURSIVE subexprs(_)
\* the literals and calls occurring in an expression
subexprs(e) ==
    IF e.tag = "Var" THEN {}
    ELSE {e} \cup UNION {subexprs(e.children[k]) : k \in 1..Len(e.children)}

RECURSIVE subexprs_and_vars(_)
\* every expression occurring in an expression
subexprs_and_vars(e) ==
    {e} \cup UNION {subexprs_and_vars(e.children[k]) : k \in 1..Len(e.children)}

\* the operands of a surface action, in the order they are flattened
operands(action) == action.args \o action.rhs

\* the literals and calls occurring in a list of actions
actions_subexprs(actions) ==
    UNION {UNION {subexprs(operands(actions[k])[m]) :
                     m \in 1..Len(operands(actions[k]))} :
              k \in 1..Len(actions)}

\* the positions of the Let and LetLit bindings in a list of NormActions
bindings(nactions) ==
    {k \in 1..Len(nactions) : nactions[k].tag \in {"Let", "LetLit"}}

RECURSIVE expand(_, _)
\* the expression a name stands for, read back through the bindings
expand(name, nactions) ==
    IF \A k \in bindings(nactions) : nactions[k].lhs # name THEN Var(name)
    ELSE Only({ IF b.tag = "LetLit" THEN Lit(b.head)
                ELSE Call(b.head, [m \in 1..Len(b.args) |-> expand(b.args[m], nactions)]) :
                b \in {nactions[CHOOSE k \in bindings(nactions) :
                                    nactions[k].lhs = name]} })

\* the names a NormAction other than a binding refers to, in the order of
\* the operands of the surface action
noperands(naction) ==
    CASE naction.tag = "LetVar" -> naction.args
      [] naction.tag = "Set" -> Append(naction.args, naction.lhs)
      [] naction.tag = "Delete" -> naction.args
      [] naction.tag = "Union" -> <<naction.lhs>> \o naction.args
      [] OTHER -> <<>>

\* the NormActions that are no bindings
plain(nactions) == SelectSeq(nactions, LAMBDA a : a.tag \notin {"Let", "LetLit"})

\* the surface actions that leave a NormAction other than bindings
lasting(actions) == SelectSeq(actions, LAMBDA a : a.tag # "Expr")

\* C3: flatten_actions emits exactly one Let or LetLit for every distinct
\* literal or call occurring in the list: no two bindings stand for the
\* same expression, every such expression has a binding, there are no more
\* bindings than expressions, and every operand of every action is referred
\* to by the name that stands for it.
C3_OneBindingPerSubexpression ==
    ActionsFlattened =>
        /\ \A i, j \in bindings(output.actions) :
              i # j => /\ output.actions[i].lhs # output.actions[j].lhs
                       /\ expand(output.actions[i].lhs, output.actions)
                          # expand(output.actions[j].lhs, output.actions)
        /\ {expand(output.actions[i].lhs, output.actions) :
               i \in bindings(output.actions)}
           = actions_subexprs(input.actions)
        /\ Len(plain(output.actions)) = Len(lasting(input.actions))
        /\ \A k \in 1..Len(plain(output.actions)) :
              [m \in 1..Len(noperands(plain(output.actions)[k])) |->
                  expand(noperands(plain(output.actions)[k])[m], output.actions)]
              = operands(lasting(input.actions)[k])

\* a list in which a literal or call occurs in two actions, flattened
C3_Witness ==
    /\ ActionsFlattened
    /\ Len(input.actions) = 2
    /\ actions_subexprs(<<input.actions[1]>>) \cap actions_subexprs(<<input.actions[2]>>)
       # {}

----------------------------------------------------------------------------
(* A session of commands on one Desugar value created by default.          *)

expr_add_ab == Call(sym_add, <<Var(sym_a), Var(sym_b)>>)
expr_add_ba == Call(sym_add, <<Var(sym_b), Var(sym_a)>>)
expr_f_a == Call(sym_f, <<Var(sym_a)>>)
expr_f_b == Call(sym_f, <<Var(sym_b)>>)

\* the rewrite of add(a, b) into add(b, a)
rewrite_E1 == Rewrite(expr_add_ab, expr_add_ba, <<>>)

SessionRewrites ==
    { rewrite_E1,
      Rewrite(expr_f_a, Var(sym_a), <<>>),
      Rewrite(Call(sym_f, <<Var(rewrite_var)>>), Var(sym_a), <<>>),
      Rewrite(Call(sym_f, <<Lit(lit_s)>>), Call(sym_plus, <<Lit(lit_s)>>), <<>>),
      Rewrite(expr_f_a, expr_f_b, <<FactEq(<<Var(sym_b), Call(sym_g, <<Var(sym_a)>>)>>)>>) }

config_plain == RunConfig(sym_empty, 1, <<>>)
config_until == RunConfig(sym_empty, 1, <<<<FactEq(<<Var(sym_a), expr_f_b>>)>>>>)

SessionRules ==
    { Rule(<<FactFact(expr_add_ab)>>, <<ActUnion(Var(sym_a), Var(sym_b))>>),
      Rule(<<FactFact(expr_f_a)>>, <<ActSet(sym_g, <<Var(sym_a)>>, expr_f_a)>>),
      Rule(<<FactFact(expr_f_a)>>,
           <<ActLet(sym_b, Lit(lit_s)), ActSet(sym_g, <<Var(sym_b)>>, expr_f_a)>>),
      Rule(<<FactFact(expr_f_a)>>, <<ActSetNoTrack(sym_g, <<Var(sym_a)>>, expr_f_a)>>) }

\* the commands whose desugaring depends on the seminaive flag
RuleCommands ==
    {CmdRule(sym_empty, n, r) : n \in {sym_empty, <<"r">>}, r \in SessionRules}
    \cup {CmdCalc(<<>>, <<expr_f_a, Var(sym_b)>>),
          CmdCalc(<<IdentSort(sym_a, sym_S)>>, <<Var(sym_a), expr_f_a, Var(sym_b)>>),
          CmdCalc(<<>>, <<>>),
          CmdCalc(<<IdentSort(sym_b, sym_S)>>, <<expr_f_a>>),
          CmdFail(CmdCalc(<<>>, <<>>)),
          CmdFail(CmdCalc(<<>>, <<expr_f_a, expr_f_a>>))}

PlainCommands ==
    {CmdRewrite(sym_empty, rw) : rw \in SessionRewrites}
    \cup {CmdBiRewrite(sym_empty, rw) : rw \in SessionRewrites}
    \cup {CmdDeclare(sym_a, sym_S), CmdDeclare(sym_v0, sym_S),
          CmdDatatype(sym_S, <<Variant(sym_f, <<sym_S>>, <<>>),
                               Variant(sym_g, <<sym_S, sym_s>>, <<1>>)>>),
          CmdDatatype(sym_f, <<>>),
          CmdDefine(sym_a, Call(sym_f, <<Lit(lit_one)>>)),
          CmdAction(ActLet(sym_a, Call(sym_f, <<Lit(lit_one)>>))),
          CmdAction(ActLet(sym_a, Var(sym_a))),
          CmdAction(ActUnion(expr_f_a, expr_f_a)),
          CmdSimplify(expr_f_a, config_until),
          CmdExtract(1, expr_f_a),
          CmdExtract(0, Var(sym_v0)),
          CmdRun(config_plain),
          CmdRun(config_until),
          CmdRunSchedule(SchedSequence(<<SchedRun(config_plain),
                                         SchedRepeat(2, SchedRun(config_until))>>)),
          CmdCheck(<<FactEq(<<Var(sym_a), expr_f_b>>)>>),
          CmdCheck(<<FactEq(<<Var(sym_a), Var(sym_b), Var(sym_a)>>)>>),
          CmdInclude(sym_p), CmdInclude(sym_q), CmdInclude(<<"x">>),
          CmdFail(CmdCheck(<<FactFact(expr_f_a)>>)),
          CmdFail(CmdInclude(sym_p)),
          CmdInclude(sym_r), CmdFail(CmdInclude(sym_r)),
          CmdFail(CmdFail(CmdPush(1))),
          CmdSort(sym_S, <<>>),
          CmdFunction(FunctionDecl(sym_f, <<sym_S>>, sym_S, <<>>)),
          CmdAddRuleset(<<"r">>),
          CmdPush(1), CmdPop(1),
          CmdPrintSize(sym_f), CmdPrint(sym_f, 1),
          CmdSetOption(<<"o">>, Lit(lit_one)),
          CmdOutput(sym_p, <<expr_f_a>>),
          CmdInput(sym_f, sym_p),
          CmdVisualize(sym_p)}

\* a command with the seminaive_transform flag of the call
Inputs ==
    {[kind |-> "command", command |-> c, seminaive_transform |-> FALSE] :
        c \in PlainCommands \cup RuleCommands}
    \cup {[kind |-> "command", command |-> c, seminaive_transform |-> TRUE] :
             c \in RuleCommands}

\* programs for desugar_program
Programs ==
    { <<CmdPush(1), CmdRewrite(sym_empty, rewrite_E1), CmdPop(1)>>,
      <<CmdDeclare(sym_a, sym_S), CmdInclude(sym_q), CmdPush(1)>>,
      <<CmdCalc(<<>>, <<expr_f_a, Var(sym_b)>>), CmdFail(CmdPush(1))>> }

\* the names get_fresh returned while the counter went from n to m
names_between(n, m, k) == [i \in 1..(m - n) |-> FreshName(n + i - 1, k)]

\* the ids of a list of NormCommands
ids_of(cmds) == [i \in 1..Len(cmds) |-> cmds[i].metadata.id]

Init ==
    /\ next_fresh = DesugarDefault.next_fresh
    /\ next_command_id = DesugarDefault.next_command_id
    /\ number_underscores = DesugarDefault.number_underscores
    /\ global_variables = DesugarDefault.global_variables
    /\ sorts = DefaultSorts
    /\ primitives = DefaultPrimitives
    /\ func_types = EmptyMap
    /\ global_types = EmptyMap
    /\ input = [kind |-> "none"]
    /\ output = NoOutput
    /\ pre = D
    /\ generated = <<>>
    /\ user_symbols = {}
    /\ emitted = <<>>
    /\ ncmds = 0
    /\ status = "ok"

\* what a call returning r leaves behind
Returned(r, symbols) ==
    /\ next_fresh' = r.d.next_fresh
    /\ next_command_id' = r.d.next_command_id
    /\ global_variables' = r.d.global_variables
    /\ output' = [kind |-> "commands", cmds |-> r.cmds, result |-> r.result]
    /\ pre' = D
    /\ generated' = generated \o names_between(next_fresh, r.d.next_fresh,
                                               number_underscores)
    /\ user_symbols' = user_symbols \cup symbols
    /\ emitted' = emitted \o ids_of(r.cmds)
    /\ ncmds' = ncmds + 1
    /\ status' = IF r.result = "Panic" THEN "panic" ELSE "ok"
    /\ UNCHANGED <<number_underscores, sorts, primitives, func_types, global_types>>

\* one call of desugar_command
DesugarCommand ==
    /\ status = "ok"
    /\ ncmds < MaxCmds
    /\ \E i \in Inputs :
          /\ input' = i
          /\ Returned(desugar_command(i.command, D, FALSE, i.seminaive_transform),
                      command_symbols(i.command))

\* one call of Desugar::desugar_program (desugar.rs 748-756)
DesugarProgram ==
    /\ status = "ok"
    /\ ncmds < MaxCmds
    /\ \E p \in Programs :
          /\ input' = [kind |-> "program", program |-> p]
          /\ Returned(desugar_commands(p, D, FALSE, FALSE),
                      UNION {command_symbols(p[i]) : i \in 1..Len(p)})

\* one call of Desugar::get_fresh from outside the desugarer
GetFresh ==
    /\ status = "ok"
    /\ ncmds < MaxCmds
    /\ \E r \in {get_fresh(D)} :
          /\ next_fresh' = r.d.next_fresh
          /\ generated' = Append(generated, r.name)
          /\ output' = [kind |-> "name", name |-> r.name]
    /\ input' = [kind |-> "get_fresh"]
    /\ pre' = D
    /\ ncmds' = ncmds + 1
    /\ UNCHANGED <<next_command_id, number_underscores, global_variables,
                   sorts, primitives, func_types, global_types, user_symbols,
                   emitted, status>>

Next == DesugarCommand \/ DesugarProgram \/ GetFresh

Spec == Init /\ [][Next]_vars

----------------------------------------------------------------------------
(* One TypeInfo that checks commands and programs.                         *)

sym_vec_of == <<"v", "e", "c", "-", "o", "f">>

TypeFunctions ==
    { FunctionDecl(sym_f, <<sym_i64>>, sym_i64, <<>>),
      FunctionDecl(sym_f, <<>>, sym_i64, <<>>),
      FunctionDecl(sym_f, <<sym_q>>, sym_i64, <<>>),
      FunctionDecl(sym_g, <<sym_i64, sym_i64>>, sym_S, <<>>),
      FunctionDecl(sym_S, <<>>, sym_i64, <<>>),
      FunctionDecl(sym_plus, <<>>, sym_i64, <<>>),
      FunctionDecl(sym_vec_of, <<>>, sym_i64, <<>>),
      [FunctionDecl(sym_g, <<>>, sym_i64, <<>>) EXCEPT !.merge = <<Var(sym_old)>>],
      [FunctionDecl(sym_g, <<>>, sym_i64, <<>>) EXCEPT
          !.merge = <<Call(sym_f, <<Var(sym_old), Var(sym_new)>>)>>],
      [FunctionDecl(sym_g, <<>>, sym_i64, <<>>) EXCEPT !.default = <<Var(sym_q)>>] }

TypeSorts ==
    { CmdSort(sym_S, <<>>),
      CmdSort(sym_f, <<>>),
      CmdSort(sym_plus, <<>>),
      CmdSort(sym_S, <<[presort |-> sym_q, args |-> <<>>]>>),
      CmdSort(sym_f, <<[presort |-> sym_q, args |-> <<>>]>>),
      CmdSort(sym_s, <<[presort |-> sym_Vec, args |-> <<Var(sym_i64)>>]>>),
      CmdSort(sym_s, <<[presort |-> sym_Vec, args |-> <<Var(sym_q)>>]>>) }

TypeRules ==
    { Rule(<<FactFact(Call(sym_f, <<Var(sym_a)>>))>>, <<>>),
      Rule(<<FactFact(Call(sym_f, <<Var(sym_a), Var(sym_b)>>))>>, <<>>),
      Rule(<<FactFact(Call(sym_f, <<Var(sym_a), Var(sym_b)>>)),
             FactFact(Call(sym_g, <<Var(sym_a)>>))>>, <<>>),
      Rule(<<FactEq(<<Var(sym_a), Call(sym_f, <<Var(sym_b)>>)>>)>>,
           <<ActSet(sym_f, <<Var(sym_a), Var(sym_b)>>, Var(sym_a))>>),
      Rule(<<FactFact(Call(sym_f, <<Var(sym_a)>>))>>,
           <<ActLet(sym_b, Call(sym_f, <<Var(sym_a)>>)),
             ActUnion(Var(sym_b), Var(sym_q))>>) }

TypeOthers ==
    { NCAction(ActLet(sym_a, Call(sym_f, <<>>))),
      NCAction(ActLet(sym_a, Lit(lit_one))),
      NCAction(ActLet(sym_a, Lit(lit_s))),
      NCAction(ActLet(sym_b, Var(sym_a))),
      NCAction(ActExpr(Call(sym_f, <<Var(sym_a)>>))),
      CmdCheck(<<FactFact(Call(sym_f, <<Var(sym_a), Var(sym_b)>>))>>),
      CmdRunSchedule(SchedSaturate(SchedRun(
          RunConfig(sym_empty, 1, <<<<FactFact(Call(sym_f, <<Var(sym_a)>>))>>>>)))),
      CmdSetOption(sym_p, Call(sym_plus, <<Var(sym_a), Var(sym_a)>>)),
      CmdOutput(sym_p, <<Call(sym_f, <<>>), Var(sym_a)>>),
      CmdFail(CmdFunction(FunctionDecl(sym_f, <<>>, sym_i64, <<>>))),
      CmdPush(1) }

TypeCommands ==
    {CmdFunction(fdecl) : fdecl \in TypeFunctions}
    \cup TypeSorts
    \cup {NCRule(sym_empty, sym_p, rule) : rule \in TypeRules}
    \cup TypeOthers

\* the declarations a program starts with, and the commands that follow
TypePrograms ==
    {<<CmdFunction(FunctionDecl(sym_f, <<sym_i64>>, sym_i64, <<>>)),
       CmdFunction(FunctionDecl(sym_g, <<sym_i64, sym_i64>>, sym_S, <<>>))>> \o rest :
        rest \in {<<>>} \cup {<<c>> : c \in TypeCommands}}
    \cup {<<c, CmdFunction(FunctionDecl(sym_f, <<sym_i64>>, sym_i64, <<>>)),
            NCRule(sym_empty, sym_p, rule)>> :
            c \in TypeSorts, rule \in TypeRules}

T == TypeInfo(sorts, primitives, func_types, global_types)

\* TypeInfo::default (typechecking.rs 32-64)
InitTypes ==
    /\ next_fresh = DesugarDefault.next_fresh
    /\ next_command_id = DesugarDefault.next_command_id
    /\ number_underscores = DesugarDefault.number_underscores
    /\ global_variables = DesugarDefault.global_variables
    /\ sorts = DefaultSorts
    /\ primitives = DefaultPrimitives
    /\ func_types = EmptyMap
    /\ global_types = EmptyMap
    /\ input = [kind |-> "none"]
    /\ output = NoOutput
    /\ pre = T
    /\ generated = <<>>
    /\ user_symbols = {}
    /\ emitted = <<>>
    /\ ncmds = 0
    /\ status = "ok"

\* what a call of the type resolver returning r leaves behind
Typed(r) ==
    /\ sorts' = r.ti.sorts
    /\ primitives' = r.ti.primitives
    /\ func_types' = r.ti.func_types
    /\ global_types' = r.ti.global_types
    /\ output' = [kind |-> "typed", tresult |-> r.result]
    /\ pre' = T
    /\ ncmds' = ncmds + 1
    /\ UNCHANGED <<next_fresh, next_command_id, number_underscores,
                   global_variables, generated, user_symbols, emitted, status>>

\* one call of TypeInfo::typecheck_command
TypecheckCommand ==
    /\ ncmds < MaxTypeCmds
    /\ \E c \in TypeCommands :
          /\ input' = [kind |-> "typecheck_command", ncommand |-> c]
          /\ Typed(typecheck_command(T, c))

\* one call of TypeInfo::typecheck_program
TypecheckProgram ==
    /\ ncmds < MaxTypeCmds
    /\ \E p \in TypePrograms :
          /\ input' = [kind |-> "typecheck_program", nprogram |-> p]
          /\ Typed(typecheck_program(T, p))

NextTypes == TypecheckCommand \/ TypecheckProgram

SpecTypes == InitTypes /\ [][NextTypes]_vars

----------------------------------------------------------------------------
(* A session that is cloned, after which the Desugar and its clone are     *)
(* given the same commands.                                                *)

\* what a clone and its parent returned for one command
CloneOutput(d, r, parent, names, parent_names) ==
    [kind |-> "clone", clone |-> d, cmds |-> r.cmds, result |-> r.result,
     parent_cmds |-> parent.cmds, parent_result |-> parent.result,
     names |-> names, parent_names |-> parent_names]

\* one call of Desugar::clone; generated keeps the names returned before it
CloneDesugar ==
    /\ status = "ok"
    /\ input' = [kind |-> "clone"]
    /\ output' = CloneOutput(clone(D), [cmds |-> <<>>, result |-> "Ok"],
                             [cmds |-> <<>>, result |-> "Ok"], <<>>, <<>>)
    /\ pre' = D
    /\ status' = "cloned"
    /\ UNCHANGED <<next_fresh, next_command_id, number_underscores,
                   global_variables, sorts, primitives, func_types, global_types,
                   generated, user_symbols, emitted, ncmds>>

\* one call of desugar_command on the parent and the same call on the clone
DesugarBoth ==
    /\ status = "cloned"
    /\ ncmds < MaxCmds
    /\ \E i \in Inputs :
          /\ input' = i
          /\ \E parent \in {desugar_command(i.command, D, FALSE, i.seminaive_transform)} :
             \E r \in {desugar_command(i.command, output.clone, FALSE,
                                       i.seminaive_transform)} :
                /\ next_fresh' = parent.d.next_fresh
                /\ next_command_id' = parent.d.next_command_id
                /\ global_variables' = parent.d.global_variables
                /\ output' = CloneOutput(r.d, r, parent,
                       names_between(output.clone.next_fresh, r.d.next_fresh,
                                     output.clone.number_underscores),
                       names_between(next_fresh, parent.d.next_fresh,
                                     number_underscores))
                /\ emitted' = emitted \o ids_of(parent.cmds)
                /\ status' = IF parent.result = "Panic" THEN "panic" ELSE "cloned"
          /\ user_symbols' = user_symbols \cup command_symbols(i.command)
    /\ pre' = D
    /\ ncmds' = ncmds + 1
    /\ UNCHANGED <<number_underscores, sorts, primitives, func_types,
                   global_types, generated>>

NextClone == DesugarCommand \/ CloneDesugar \/ DesugarBoth

SpecClone == Init /\ [][NextClone]_vars

----------------------------------------------------------------------------
(* Printing an expression and parsing the text back.                       *)

\* the first position from i on where text holds one of chars, or one past
\* the end
find(text, i, chars) ==
    IF \E j \in i..Len(text) : text[j] \in chars
    THEN CHOOSE j \in i..Len(text) :
            text[j] \in chars /\ \A k \in i..(j - 1) : text[k] \notin chars
    ELSE Len(text) + 1

RECURSIVE tokens(_, _)
\* the tokens of text from position i: a parenthesis, a string with its
\* quotes, or the characters up to the next blank or parenthesis
tokens(text, i) ==
    IF i > Len(text) THEN <<>>
    ELSE IF text[i] = " " THEN tokens(text, i + 1)
    ELSE IF text[i] \in {"(", ")"} THEN <<<<text[i]>>>> \o tokens(text, i + 1)
    ELSE IF text[i] = "\""
    THEN <<SubSeq(text, i, find(text, i + 1, {"\""}))>>
         \o tokens(text, find(text, i + 1, {"\""}) + 1)
    ELSE <<SubSeq(text, i, find(text, i, {" ", "(", ")"}) - 1)>>
         \o tokens(text, find(text, i, {" ", "(", ")"}))

IsDigits(text) ==
    Len(text) > 0 /\ \A i \in 1..Len(text) : \E j \in 1..10 : DigitChars[j] = text[i]

\* an optional minus sign and digits
IsIntText(text) ==
    IsDigits(IF Len(text) > 0 /\ text[1] = "-" THEN Tail(text) ELSE text)

\* an optional minus sign, digits, a point and digits
IsFloatText(text) ==
    /\ find(text, 1, {"."}) < Len(text)
    /\ IsIntText(SubSeq(text, 1, find(text, 1, {"."}) - 1))
    /\ IsDigits(SubSeq(text, find(text, 1, {"."}) + 1, Len(text)))

RECURSIVE strip_trailing_zeros(_)
strip_trailing_zeros(digits) ==
    IF Len(digits) > 0 /\ digits[Len(digits)] = "0"
    THEN strip_trailing_zeros(SubSeq(digits, 1, Len(digits) - 1))
    ELSE digits

\* the text of the f64 a float token denotes: the fraction loses its
\* trailing zeros, and the point with it when nothing is left
float_text(text) ==
    SubSeq(text, 1, find(text, 1, {"."}) - 1)
    \o (IF strip_trailing_zeros(SubSeq(text, find(text, 1, {"."}) + 1, Len(text))) = <<>>
        THEN <<>>
        ELSE <<".">> \o strip_trailing_zeros(
                            SubSeq(text, find(text, 1, {"."}) + 1, Len(text))))

ParseError == [ok |-> FALSE, expr |-> Var(sym_empty), next |-> 0]

\* the expression of a token that is no parenthesis
parse_atom(token, next) ==
    IF token[1] = "\""
    THEN IF Len(token) >= 2 /\ token[Len(token)] = "\""
         THEN [ok |-> TRUE, expr |-> Lit(LitString(SubSeq(token, 2, Len(token) - 1))),
               next |-> next]
         ELSE ParseError
    ELSE IF IsIntText(token)
    THEN IF parses_as_i64(token)
         THEN [ok |-> TRUE, expr |-> Lit(LitInt(token)), next |-> next]
         ELSE ParseError
    ELSE IF IsFloatText(token)
    THEN [ok |-> TRUE, expr |-> Lit(LitF64(float_text(token))), next |-> next]
    ELSE [ok |-> TRUE, expr |-> Var(token), next |-> next]

RECURSIVE parse_at(_, _)
RECURSIVE parse_children(_, _, _, _)
\* the children of a call up to its closing parenthesis
parse_children(toks, i, head, children) ==
    IF i > Len(toks) THEN ParseError
    ELSE IF toks[i] = <<")">>
    THEN [ok |-> TRUE, expr |-> Call(head, children), next |-> i + 1]
    ELSE Only({ IF child.ok
                THEN parse_children(toks, child.next, head, Append(children, child.expr))
                ELSE ParseError :
                child \in {parse_at(toks, i)} })

\* the expression that starts at token i
parse_at(toks, i) ==
    IF i > Len(toks) \/ toks[i] = <<")">> THEN ParseError
    ELSE IF toks[i] = <<"(">>
    THEN IF /\ i + 1 <= Len(toks)
            /\ toks[i + 1] \notin {<<"(">>, <<")">>}
            /\ toks[i + 1][1] # "\""
            /\ ~IsIntText(toks[i + 1])
            /\ ~IsFloatText(toks[i + 1])
         THEN parse_children(toks, i + 2, toks[i + 1], <<>>)
         ELSE ParseError
    ELSE parse_atom(toks[i], i + 1)

\* parse_expr (expr.rs 286-292): ExprParser on the whole text
parse_expr(text) ==
    Only({ IF r.ok /\ r.next = Len(tokens(text, 1)) + 1
           THEN [ok |-> TRUE, expr |-> r.expr]
           ELSE [ok |-> FALSE, expr |-> Var(sym_empty)] :
           r \in {parse_at(tokens(text, 1), 1)} })

sym_h == <<"H">>
sym_hello == <<"h", "e", "l", "l", "o">>
two_to_63 == <<"9", "2", "2", "3", "3", "7", "2", "0", "3", "6", "8", "5", "4", "7",
               "7", "5", "8", "0", "8">>

\* variables, and int, float and string literals
PrintLeaves ==
    { Var(sym_a), Var(sym_b),
      Lit(LitInt(<<"3">>)), Lit(LitInt(<<"-", "1">>)),
      Lit(LitF64(<<"4">>)), Lit(LitF64(<<"1", ".", "5">>)), Lit(LitF64(two_to_63)),
      Lit(LitString(sym_hello)), Lit(LitString(<<>>)) }

\* the expression of test_parser_display_roundtrip (expr.rs 297-302)
roundtrip_expr ==
    Call(sym_f, <<Call(sym_g, <<Var(sym_a), Lit(LitInt(<<"3">>))>>),
                  Lit(LitF64(<<"4">>)),
                  Call(sym_h, <<Lit(LitString(sym_hello))>>)>>)

PrintExprs ==
    PrintLeaves
    \cup {Call(sym_f, <<>>), roundtrip_expr}
    \cup {Call(sym_g, <<l>>) : l \in PrintLeaves}
    \cup {Call(sym_g, <<l, m>>) : l, m \in PrintLeaves}
    \cup {Call(sym_f, <<l, Call(sym_h, <<m>>)>>) : l, m \in PrintLeaves}

\* one expression is printed and the text is parsed
PrintExpr ==
    /\ \E e \in PrintExprs :
          /\ input' = [kind |-> "expr", expr |-> e]
          /\ output' = [kind |-> "printed", text |-> expr_to_string(e),
                        parsed |-> parse_expr(expr_to_string(e))]
    /\ UNCHANGED <<next_fresh, next_command_id, number_underscores,
                   global_variables, sorts, primitives, func_types, global_types,
                   pre, generated, user_symbols, emitted, ncmds, status>>

NextPrint == PrintExpr

SpecPrint == Init /\ [][NextPrint]_vars

----------------------------------------------------------------------------
(* get_fresh on counters of the width of usize: next_fresh is kept as its  *)
(* decimal text, so that values of 2^32 and above are reached.             *)

MaxFreshCalls == 8

RECURSIVE succ_digits(_)
\* the decimal text of n + 1 from the decimal text of n
succ_digits(digits) ==
    IF Len(digits) = 0 THEN <<"1">>
    ELSE IF digits[Len(digits)] = "9"
    THEN succ_digits(SubSeq(digits, 1, Len(digits) - 1)) \o <<"0">>
    ELSE SubSeq(digits, 1, Len(digits) - 1)
         \o <<DigitChars[digit_value(digits[Len(digits)]) + 2]>>

\* the format! of get_fresh (desugar.rs 734-739) on the text of the counter
fresh_name_text(digits, k) == <<"v">> \o digits \o Repeat("_", k)

\* counters the calls start from: 0, 98 and 2^32 - 6
FreshStarts ==
    { <<"0">>, <<"9", "8">>,
      <<"4", "2", "9", "4", "9", "6", "7", "2", "9", "0">> }

\* the values number_underscores is given
Underscores == 0..4

InitNames ==
    /\ next_fresh \in FreshStarts
    /\ next_command_id = 0
    /\ number_underscores \in Underscores
    /\ global_variables = {}
    /\ sorts = DefaultSorts
    /\ primitives = DefaultPrimitives
    /\ func_types = EmptyMap
    /\ global_types = EmptyMap
    /\ input = [kind |-> "none"]
    /\ output = NoOutput
    /\ pre = D
    /\ generated = <<>>
    /\ user_symbols = {}
    /\ emitted = <<>>
    /\ ncmds = 0
    /\ status = "ok"

\* one call of Desugar::get_fresh (desugar.rs 732-740)
GetFreshName ==
    /\ ncmds < MaxFreshCalls
    /\ input' = [kind |-> "get_fresh"]
    /\ output' = [kind |-> "name",
                  name |-> fresh_name_text(next_fresh, number_underscores)]
    /\ next_fresh' = succ_digits(next_fresh)
    /\ pre' = D
    /\ generated' = Append(generated,
                           fresh_name_text(next_fresh, number_underscores))
    /\ ncmds' = ncmds + 1
    /\ UNCHANGED <<next_command_id, number_underscores, global_variables,
                   sorts, primitives, func_types, global_types, user_symbols,
                   emitted, status>>

NextNames == GetFreshName

SpecNames == InitNames /\ [][NextNames]_vars

----------------------------------------------------------------------------
(* Properties of a session.                                                *)

\* the last call was desugar_command or desugar_program and returned Ok
Desugared == output.kind = "commands" /\ output.result = "Ok"

\* the last call was desugar_command on a command of one kind
DesugaredA(tag) ==
    /\ input.kind = "command"
    /\ input.command.tag = tag
    /\ Desugared

\* C5 as stated: no name get_fresh returned equals an earlier one, and none
\* equals a symbol the user wrote.
C5_Original ==
    /\ \A i, j \in 1..Len(generated) : i # j => generated[i] # generated[j]
    /\ \A i \in 1..Len(generated) : generated[i] \notin user_symbols

\* C5: no name get_fresh returned equals an earlier one, and none equals a
\* symbol the user wrote unless that symbol has the shape of a generated
\* name.
C5_FreshUnlessShapeWritten ==
    /\ \A i, j \in 1..Len(generated) : i # j => generated[i] # generated[j]
    /\ \A i \in 1..Len(generated) :
          generated[i] \notin {u \in user_symbols : ~is_temp_name(u)}

\* names were generated by a command and by a later call, beside symbols
\* the user wrote
C5_Witness ==
    /\ Len(generated) >= 3
    /\ ncmds = 2
    /\ pre.next_fresh > 0
    /\ \E u \in user_symbols : ~is_temp_name(u)

\* C6: the ids of the NormCommands emitted in a session are strictly
\* increasing in emission order, so there are as many distinct ids as
\* emitted commands.
C6_IdsIncreasing ==
    /\ \A i, j \in 1..Len(emitted) : i < j => emitted[i] < emitted[j]
    /\ Cardinality({emitted[i] : i \in 1..Len(emitted)}) = Len(emitted)

\* a Fail, an Include or a Calc that emitted several commands after
\* earlier commands
C6_Witness ==
    /\ input.kind = "command"
    /\ input.command.tag \in {"Fail", "Include", "Calc"}
    /\ Desugared
    /\ Len(output.cmds) >= 2
    /\ Len(emitted) > Len(output.cmds)

\* C7 as stated: the ids of the commands the first call on a Desugar
\* created by default emits are 0, 1, ..., n - 1.
C7_Original ==
    (ncmds = 1 /\ Desugared) =>
        ids_of(output.cmds) = [i \in 1..Len(output.cmds) |-> i - 1]

\* the variables of a rewrite
rewrite_vars(rewrite) ==
    {e.head : e \in {x \in subexprs_and_vars(rewrite.lhs)
                            \cup subexprs_and_vars(rewrite.rhs)
                            \cup UNION {UNION {subexprs_and_vars(rewrite.conditions[k].args[m]) :
                                                  m \in 1..Len(rewrite.conditions[k].args)} :
                                           k \in 1..Len(rewrite.conditions)} :
                        x.tag = "Var"}}

\* the names get_fresh had returned when the last call began
generated_before == {FreshName(n, number_underscores) : n \in 0..(pre.next_fresh - 1)}

\* the name the head of a rewrite's rule unions with the right-hand side
union_var(rule) == rule.head[Len(rule.head)].lhs

\* C8 as stated: a Rewrite desugars to one NormRule of its ruleset, named
\* by the printed rewrite with single quotes for double quotes, equal to
\* flatten_rule of body [Eq(x, lhs)] + conditions and head [Union(x, rhs)]
\* for a name x that is no variable of the rewrite and was not generated
\* earlier.
C8_Original ==
    DesugaredA("Rewrite") =>
        /\ Len(output.cmds) = 1
        /\ output.cmds[1].command.tag = "NormRule"
        /\ output.cmds[1].command.ruleset = input.command.ruleset
        /\ output.cmds[1].command.name = rewrite_name(input.command.rewrite)
        /\ \E x \in {union_var(output.cmds[1].command.rule)} :
              /\ x \notin rewrite_vars(input.command.rewrite)
              /\ x \notin generated_before
              /\ output.cmds[1].command.rule
                 = flatten_rule(rewrite_rule(x, input.command.rewrite), pre).rule

\* the rewrite with its sides exchanged
swapped(rewrite) == Rewrite(rewrite.rhs, rewrite.lhs, rewrite.conditions)

\* what desugaring Rewrite(ruleset, rewrite) returns from the state d
as_rewrite(ruleset, rewrite, d) ==
    desugar_command(CmdRewrite(ruleset, rewrite), d, FALSE, FALSE)

count_facts(body, tag, head, args) ==
    Cardinality({k \in 1..Len(body) :
                    /\ body[k].tag = tag
                    /\ tag = "ConstrainEq" \/ (body[k].head = head /\ body[k].args = args)})

\* the last call desugared the rewrite of add(a, b) into add(b, a)
DesugaredE1 ==
    /\ DesugaredA("Rewrite")
    /\ input.command.rewrite = rewrite_E1

\* what C10 and its original statement share: one rule, one
\* Assign(_, add(a, b)) in its body, and a head made of a Let binding
\* add(b, a) followed by the one Union, whose second operand is the name
\* the Let binds
E1_Shape(rule) ==
    /\ count_facts(rule.body, "Assign", sym_add, <<sym_a, sym_b>>) = 1
    /\ Cardinality({k \in 1..Len(rule.head) : rule.head[k].tag = "Union"}) = 1
    /\ \E k \in 1..Len(rule.head) :
          /\ rule.head[k].tag = "Union"
          /\ \E m \in 1..(k - 1) :
                /\ rule.head[m].tag = "Let"
                /\ rule.head[m].head = sym_add
                /\ rule.head[m].args = <<sym_b, sym_a>>
                /\ rule.head[m].lhs = rule.head[k].args[1]

\* C10 as stated: the rule of the rewrite of add(a, b) into add(b, a) has
\* one Assign(_, add(a, b)) and one ConstrainEq in its body and one Union
\* in its head, whose second operand a preceding Let binds to add(b, a).
C10_Original ==
    DesugaredE1 =>
        /\ Len(output.cmds) = 1
        /\ E1_Shape(output.cmds[1].command.rule)
        /\ count_facts(output.cmds[1].command.rule.body, "ConstrainEq", <<>>, <<>>) = 1

\* C10: the rule of the rewrite of add(a, b) into add(b, a) has one
\* Assign(_, add(a, b)) and no ConstrainEq in its body (the Assign is its
\* only fact) and one Union in its head, whose second operand a preceding
\* Let binds to add(b, a).
C10_E1NoConstrainEq ==
    DesugaredE1 =>
        /\ Len(output.cmds) = 1
        /\ E1_Shape(output.cmds[1].command.rule)
        /\ count_facts(output.cmds[1].command.rule.body, "ConstrainEq", <<>>, <<>>) = 0
        /\ Len(output.cmds[1].command.rule.body) = 1

\* the rewrite of add(a, b) into add(b, a) desugared after names had been
\* generated
C10_Witness ==
    /\ DesugaredE1
    /\ pre.next_fresh > 0

----------------------------------------------------------------------------
(* Rules under the seminaive flag.                                         *)

\* the positions of the Set actions of a head whose right-hand side is a
\* function call
interpreted_sets(head) ==
    {i \in 1..Len(head) : head[i].tag = "Set" /\ head[i].rhs[1].tag = "Call"}

\* the fresh variable that stands for the right-hand side of the Set at
\* position i, when the fresh names start at counter n
sn_var(head, i, n) ==
    FreshName(n + Cardinality({j \in interpreted_sets(head) : j < i}),
              number_underscores)

\* the equalities the companion adds to the body, in the order of the head
sn_equalities(head, n) ==
    Flat([i \in 1..Len(head) |->
            IF i \in interpreted_sets(head)
            THEN <<FactEq(<<Var(sn_var(head, i, n)), head[i].rhs[1]>>)>>
            ELSE IF head[i].tag = "Let"
            THEN <<FactEq(<<Var(head[i].sym), head[i].rhs[1]>>)>>
            ELSE <<>>])

\* the companion of a rule as C11 describes it
companion(rule, n) ==
    Rule(rule.body \o sn_equalities(rule.head, n),
         SelectSeq([i \in 1..Len(rule.head) |->
                       IF i \in interpreted_sets(rule.head)
                       THEN [rule.head[i] EXCEPT !.rhs = <<Var(sn_var(rule.head, i, n))>>]
                       ELSE rule.head[i]],
                   LAMBDA a : a.tag # "Let"))

\* the NormRules of the last output all have the ruleset of the input and
\* one name
SameRulesetAndName ==
    \A k \in 1..Len(output.cmds) :
        /\ output.cmds[k].command.tag = "NormRule"
        /\ output.cmds[k].command.ruleset = input.command.ruleset
        /\ output.cmds[k].command.name = output.cmds[1].command.name

\* C11: a Rule desugars to one NormRule, the flattened rule, when the
\* seminaive flag is unset or no Set of the head has a call as right-hand
\* side; otherwise to two NormRules of the same ruleset and name, the
\* flattened rule and then the flattened companion, whose body has
\* Eq(g, rhs) for a fresh g for every such Set and Eq(x, e) for every
\* Let(x, e) of the head, and whose head has g for rhs and no Let.
C11_SeminaiveCompanion ==
    DesugaredA("Rule") =>
        \E first \in {flatten_rule(input.command.surface_rule, pre)} :
            /\ SameRulesetAndName
            /\ output.cmds[1].command.rule = first.rule
            /\ IF input.seminaive_transform
                  /\ interpreted_sets(input.command.surface_rule.head) # {}
               THEN /\ Len(output.cmds) = 2
                    /\ output.cmds[2].command.rule
                       = flatten_rule(
                             companion(input.command.surface_rule, first.d.next_fresh),
                             [first.d EXCEPT !.next_fresh = @ + Cardinality(
                                 interpreted_sets(input.command.surface_rule.head))]
                         ).rule
               ELSE Len(output.cmds) = 1

\* a rule with a Let and a Set of a call in its head, desugared under the
\* flag after names had been generated
C11_Witness ==
    /\ DesugaredA("Rule")
    /\ input.seminaive_transform
    /\ Len(output.cmds) = 2
    /\ \E i \in 1..Len(input.command.surface_rule.head) :
          input.command.surface_rule.head[i].tag = "Let"
    /\ pre.next_fresh > 0

----------------------------------------------------------------------------
(* Calc.                                                                   *)

\* the command at position k of the last output
cmd_at(k) == output.cmds[k].command

\* the positions of the commands of one kind in the last output
positions(tag) == {k \in 1..Len(output.cmds) : cmd_at(k).tag = tag}

\* the j-th smallest member of a set of numbers
nth(S, j) == CHOOSE k \in S : Cardinality({m \in S : m < k}) = j - 1

\* the NormActions between two positions of the last output
actions_between(p, q) == [k \in 1..(q - p - 1) |-> cmd_at(p + k).naction]

\* the declaration of ident j of a Calc: a function without inputs of the
\* ident's sort under a generated name, and the ident bound to its call
CalcDeclares(j) ==
    /\ cmd_at(2 * j - 1).tag = "Function"
    /\ cmd_at(2 * j - 1).fdecl.schema.input = <<>>
    /\ cmd_at(2 * j - 1).fdecl.schema.output = input.command.idents[j].sort
    /\ cmd_at(2 * j - 1).fdecl.name \in {generated[m] : m \in 1..Len(generated)}
    /\ cmd_at(2 * j) = NCNormAction(NLet(input.command.idents[j].ident,
                                         NormCall(cmd_at(2 * j - 1).fdecl.name, <<>>)))

\* the commands from the Push at p to the Pop at q are the block of the
\* expressions e1 and e2
CalcBlock(p, q, e1, e2) ==
    /\ p + 2 < q
    /\ cmd_at(p) = CmdPush(1)
    /\ cmd_at(q) = CmdPop(1)
    /\ \A k \in (p + 1)..(q - 3) :
          /\ cmd_at(k).tag = "NormAction"
          /\ cmd_at(k).naction.tag \in {"Let", "LetLit"}
    /\ {expand(cmd_at(k).naction.lhs, actions_between(p, q - 2)) : k \in (p + 1)..(q - 3)}
       = subexprs(e1) \cup subexprs(e2)
    /\ cmd_at(q - 2).tag = "RunSchedule"
    /\ \E n \in pre.next_fresh..next_fresh :
          cmd_at(q - 2).nschedule
          = SchedSaturate(SchedRun(RunConfig(sym_empty, 1,
                <<flatten_facts(<<FactEq(<<e1, e2>>)>>,
                                [pre EXCEPT !.next_fresh = n]).facts>>)))
    /\ cmd_at(q - 1).tag = "Check"
    /\ Len(cmd_at(q - 1).nfacts) = 1
    /\ cmd_at(q - 1).nfacts[1].tag = "ConstrainEq"
    /\ expand(cmd_at(q - 1).nfacts[1].lhs, actions_between(p, q - 2)) = e1
    /\ expand(cmd_at(q - 1).nfacts[1].args[1], actions_between(p, q - 2)) = e2

\* the number of adjacent pairs of the expressions of the Calc
calc_pairs ==
    IF Len(input.command.exprs) < 2 THEN 0 ELSE Len(input.command.exprs) - 1

\* C12: a Calc desugars to the declarations of its idents in order and then,
\* for each adjacent pair of its expressions in order, one block Push(1),
\* the bindings of both expressions, RunSchedule(Saturate(Run("", 1,
\* until the flattened equality of the pair))), Check([ConstrainEq] of the
\* names the two expressions are bound to), Pop(1); there are n - 1 blocks
\* for n expressions, none when n < 2, and each begins where the one
\* before ended.
C12_CalcBlocks ==
    DesugaredA("Calc") =>
        /\ Len(output.cmds) >= 2 * Len(input.command.idents)
        /\ \A j \in 1..Len(input.command.idents) : CalcDeclares(j)
        /\ Cardinality(positions("Push")) = calc_pairs
        /\ Cardinality(positions("Pop")) = calc_pairs
        /\ calc_pairs = 0 => Len(output.cmds) = 2 * Len(input.command.idents)
        /\ calc_pairs > 0 =>
              /\ nth(positions("Push"), 1) = 2 * Len(input.command.idents) + 1
              /\ nth(positions("Pop"), calc_pairs) = Len(output.cmds)
        /\ \A j \in 1..calc_pairs :
              /\ CalcBlock(nth(positions("Push"), j), nth(positions("Pop"), j),
                           input.command.exprs[j], input.command.exprs[j + 1])
              /\ j < calc_pairs =>
                    nth(positions("Push"), j + 1) = nth(positions("Pop"), j) + 1

\* a Calc with an ident and two pairs, desugared after names had been
\* generated
C12_Witness ==
    /\ DesugaredA("Calc")
    /\ Len(input.command.idents) > 0
    /\ calc_pairs = 2
    /\ pre.next_fresh > 0

----------------------------------------------------------------------------
(* Fail.                                                                   *)

\* the last output is the list r with its last command wrapped in Fail
\* under that command's metadata
FailWraps(r) ==
    /\ output.result = "Ok"
    /\ Len(output.cmds) = Len(r.cmds)
    /\ Len(output.cmds) > 0
    /\ \A k \in 1..(Len(r.cmds) - 1) : output.cmds[k] = r.cmds[k]
    /\ output.cmds[Len(output.cmds)]
       = [metadata |-> r.cmds[Len(r.cmds)].metadata,
          command |-> NCFail(r.cmds[Len(r.cmds)].command)]
    /\ D = r.d

\* C13 as stated: for every command that desugars, Fail of it returns the
\* list the command desugars to from the same state, the last command
\* wrapped in Fail under its own metadata, and leaves the state the command
\* alone leaves.
C13_Original ==
    (input.kind = "command" /\ input.command.tag = "Fail"
                            /\ output.kind = "commands") =>
        \E r \in {desugar_command(input.command.inner, pre, FALSE,
                                  input.seminaive_transform)} :
            r.result = "Ok" => FailWraps(r)

\* a Fail of a command that desugars to no command at all
C13_Witness ==
    /\ input.kind = "command"
    /\ input.command.tag = "Fail"
    /\ output.kind = "commands"
    /\ desugar_command(input.command.inner, pre, FALSE,
                       input.seminaive_transform).result = "Ok"
    /\ desugar_command(input.command.inner, pre, FALSE,
                       input.seminaive_transform).cmds = <<>>
    /\ output.result = "Panic"

----------------------------------------------------------------------------
(* Datatype.                                                               *)

\* C14: a Datatype desugars to 1 + |variants| commands: Sort(name) without
\* presort, then for every variant in order a Function named as the
\* variant, with the variant's types as inputs, name as output, the
\* variant's cost, and no merge, merge action or default; no name is
\* generated and no global variable added.
C14_DatatypeCommands ==
    DesugaredA("Datatype") =>
        /\ Len(output.cmds) = 1 + Len(input.command.variants)
        /\ cmd_at(1).tag = "Sort"
        /\ cmd_at(1).name = input.command.name
        /\ cmd_at(1).presort = <<>>
        /\ \A i \in 1..Len(input.command.variants) :
              /\ cmd_at(i + 1).tag = "Function"
              /\ cmd_at(i + 1).fdecl.name = input.command.variants[i].name
              /\ cmd_at(i + 1).fdecl.schema.input = input.command.variants[i].types
              /\ cmd_at(i + 1).fdecl.schema.output = input.command.name
              /\ cmd_at(i + 1).fdecl.cost = input.command.variants[i].cost
              /\ cmd_at(i + 1).fdecl.merge = <<>>
              /\ cmd_at(i + 1).fdecl.merge_action = <<>>
              /\ cmd_at(i + 1).fdecl.default = <<>>
        /\ next_fresh = pre.next_fresh
        /\ global_variables = pre.global_variables

\* a Datatype with a variant that has a cost and one that has none,
\* desugared after names had been generated and globals added
C14_Witness ==
    /\ DesugaredA("Datatype")
    /\ \E i, j \in 1..Len(input.command.variants) :
          /\ input.command.variants[i].cost = <<>>
          /\ input.command.variants[j].cost # <<>>
    /\ pre.next_fresh > 0
    /\ pre.global_variables # {}

----------------------------------------------------------------------------
(* Declarations of sorts and functions.                                    *)

\* the last call was typecheck_command on a command of one kind
TypedA(tag) ==
    /\ input.kind = "typecheck_command"
    /\ input.ncommand.tag = tag

\* "Ok", or the kind of the TypeError the last call returned
ResultKind ==
    IF output.tresult.tag = "Ok" THEN "Ok" ELSE output.tresult.error.kind

\* the sorts a function declaration names are all known
KnownSchema(fdecl) ==
    /\ \A i \in 1..Len(fdecl.schema.input) : fdecl.schema.input[i] \in DOMAIN pre.sorts
    /\ fdecl.schema.output \in DOMAIN pre.sorts

\* a function declaration with no merge, default or merge action
PlainDecl(fdecl) ==
    fdecl.merge = <<>> /\ fdecl.default = <<>> /\ fdecl.merge_action = <<>>

\* C15 as stated: each kind of clash returns its own error, whatever else
\* is wrong with the declaration, and a first declaration of an unused name
\* with known sorts succeeds
C15_Original ==
    /\ TypedA("Sort") =>
          /\ input.ncommand.name \in DOMAIN pre.sorts
                => ResultKind = "SortAlreadyBound"
          /\ input.ncommand.name \in DOMAIN pre.func_types
                => ResultKind = "FunctionAlreadyBound"
          /\ (/\ input.ncommand.presort # <<>>
              /\ input.ncommand.presort[1].presort \notin Presorts)
                => ResultKind = "PresortNotFound"
          /\ (/\ input.ncommand.name \notin DOMAIN pre.sorts \cup DOMAIN pre.func_types
              /\ input.ncommand.presort = <<>>)
                => ResultKind = "Ok"
    /\ TypedA("Function") =>
          /\ input.ncommand.fdecl.name \in DOMAIN pre.func_types
                => ResultKind = "FunctionAlreadyBound"
          /\ input.ncommand.fdecl.name \in DOMAIN pre.sorts
                => ResultKind = "SortAlreadyBound"
          /\ is_primitive(pre.primitives, input.ncommand.fdecl.name)
                => ResultKind = "PrimitiveAlreadyBound"
          /\ (/\ input.ncommand.fdecl.name \notin
                    DOMAIN pre.sorts \cup DOMAIN pre.func_types
              /\ ~is_primitive(pre.primitives, input.ncommand.fdecl.name)
              /\ KnownSchema(input.ncommand.fdecl)
              /\ PlainDecl(input.ncommand.fdecl))
                => ResultKind = "Ok"

\* C15, amended: the clashes are tested in a fixed order and the first
\* one that applies decides the error. A sort declaration: the name is a
\* function, then the presort is unknown, then the presort rejects its
\* arguments, then the name is a sort. A function declaration: the name is
\* a sort, then a primitive, then a sort of the schema is unknown, then the
\* name is a function. A plain declaration that meets none of them succeeds.
C15_DeclarationErrors ==
    /\ TypedA("Sort") =>
          IF input.ncommand.name \in DOMAIN pre.func_types
          THEN ResultKind = "FunctionAlreadyBound"
          ELSE IF input.ncommand.presort = <<>>
          THEN ResultKind = IF input.ncommand.name \in DOMAIN pre.sorts
                            THEN "SortAlreadyBound" ELSE "Ok"
          ELSE IF input.ncommand.presort[1].presort \notin Presorts
          THEN ResultKind = "PresortNotFound"
          ELSE /\ ResultKind \notin {"FunctionAlreadyBound", "PresortNotFound",
                                     "PrimitiveAlreadyBound"}
               /\ ResultKind = "SortAlreadyBound"
                     => input.ncommand.name \in DOMAIN pre.sorts
               /\ ResultKind = "Ok" => input.ncommand.name \notin DOMAIN pre.sorts
    /\ TypedA("Function") =>
          IF input.ncommand.fdecl.name \in DOMAIN pre.sorts
          THEN ResultKind = "SortAlreadyBound"
          ELSE IF is_primitive(pre.primitives, input.ncommand.fdecl.name)
          THEN ResultKind = "PrimitiveAlreadyBound"
          ELSE IF ~KnownSchema(input.ncommand.fdecl)
          THEN ResultKind = "Unbound"
          ELSE IF input.ncommand.fdecl.name \in DOMAIN pre.func_types
          THEN ResultKind = "FunctionAlreadyBound"
          ELSE PlainDecl(input.ncommand.fdecl) => ResultKind = "Ok"

\* a sort whose name is already a sort is declared with an unknown presort
C15_Witness ==
    /\ TypedA("Sort")
    /\ input.ncommand.name \in DOMAIN pre.sorts
    /\ input.ncommand.presort # <<>>
    /\ ResultKind = "PresortNotFound"

----------------------------------------------------------------------------
(* What a failed command leaves in the registry.                           *)

\* C16 as stated: whenever typecheck_command returns an error, sorts,
\* primitives, func_types and global_types are as they were before the
\* command
C16_Original ==
    (input.kind = "typecheck_command" /\ ResultKind # "Ok") => T = pre

\* a redeclared function returned FunctionAlreadyBound and func_types now
\* holds the type of the rejected declaration
C16_Witness ==
    /\ TypedA("Function")
    /\ ResultKind = "FunctionAlreadyBound"
    /\ func_types # pre.func_types

----------------------------------------------------------------------------
(* Calls with the wrong number of arguments.                               *)

RECURSIVE calls_of(_)
\* the calls of an expression, each as its head and its number of arguments
calls_of(expr) ==
    IF expr.tag # "Call" THEN {}
    ELSE {<<expr.head, Len(expr.children)>>}
         \cup UNION {calls_of(expr.children[i]) : i \in 1..Len(expr.children)}

\* the calls of a list of facts
facts_calls(facts) ==
    UNION {UNION {calls_of(facts[i].args[k]) : k \in 1..Len(facts[i].args)} :
           i \in 1..Len(facts)}

\* the calls of a list of actions
actions_calls(actions) ==
    UNION {UNION {calls_of((actions[i].args \o actions[i].rhs)[k]) :
                  k \in 1..Len(actions[i].args \o actions[i].rhs)}
           \cup (IF actions[i].tag \in {"Set", "SetNoTrack", "Delete"}
                 THEN {<<actions[i].sym, Len(actions[i].args)>>} ELSE {}) :
           i \in 1..Len(actions)}

\* the calls of a rule, a check or an action command
command_calls(command) ==
    IF command.tag = "NormRule"
    THEN facts_calls(command.surface_rule.body)
         \cup actions_calls(command.surface_rule.head)
    ELSE IF command.tag = "Check" THEN facts_calls(command.facts)
    ELSE IF command.tag = "NormAction" THEN actions_calls(<<command.action>>)
    ELSE {}

\* the calls of a command that give a function of f_types a number of
\* arguments other than its number of inputs
wrong_calls(f_types, command) ==
    {c \in command_calls(command) :
        c[1] \in DOMAIN f_types /\ c[2] # Len(f_types[c[1]].input)}

----------------------------------------------------------------------------
(* A Desugar and its clone.                                                *)

\* the clone and its parent were given the same command
Cloned == output.kind = "clone" /\ input.kind = "command"

----------------------------------------------------------------------------
(* Printing and parsing.                                                   *)

\* the float literals of an expression
RECURSIVE floats_of(_)
floats_of(expr) ==
    IF expr.tag = "Lit" THEN (IF expr.head[1] = "F64" THEN {Tail(expr.head)} ELSE {})
    ELSE IF expr.tag = "Var" THEN {}
    ELSE UNION {floats_of(expr.children[i]) : i \in 1..Len(expr.children)}

\* C19 as stated: parsing the printed form of an expression yields the
\* expression, printing the parse yields the same text, and a float with an
\* integral value is printed with a trailing .0
C19_Original ==
    output.kind = "printed" =>
        /\ output.parsed.ok
        /\ output.parsed.expr = input.expr
        /\ expr_to_string(output.parsed.expr) = output.text
        /\ input.expr.tag = "Lit" /\ input.expr.head[1] = "F64"
           /\ IsIntText(Tail(input.expr.head))
              => SubSeq(output.text, Len(output.text) - 1, Len(output.text)) = <<".", "0">>

\* the float 2^63 was printed, with no point in the text
C19_Witness ==
    /\ output.kind = "printed"
    /\ two_to_63 \in floats_of(input.expr)
    /\ \A i \in 1..Len(output.text) : output.text[i] # "."

----------------------------------------------------------------------------
(* The arguments of a primitive in a flattened body.                       *)

\* C20 as stated: in a body flatten_rule returns, every argument of a
\* Compute is bound by a strictly earlier fact (as the lhs of an Assign,
\* Compute or AssignLit, or as an argument of an Assign) or is a global,
\* whatever the order of the surface facts
C20_Original ==
    RuleFlattened =>
        \A i \in 1..Len(output.rule.body) :
            output.rule.body[i].tag = "Compute" =>
                fact_uses(output.rule.body[i])
                    \subseteq bound_before(output.rule.body, i - 1)
                              \cup global_variables

\* a Compute reads a variable that no earlier fact binds and that a later
\* Assign binds
C20_Witness ==
    /\ RuleFlattened
    /\ \E i \in 1..Len(output.rule.body) :
          /\ output.rule.body[i].tag = "Compute"
          /\ \E n \in fact_uses(output.rule.body[i]) :
                /\ n \notin bound_before(output.rule.body, i - 1) \cup global_variables
                /\ \E j \in (i + 1)..Len(output.rule.body) :
                      /\ output.rule.body[j].tag = "Assign"
                      /\ n \in fact_uses(output.rule.body[j])

----------------------------------------------------------------------------
(* The order of the facts flatten_facts returns.                           *)

\* res and constraints when the loop of flatten_equalities ends, for the
\* facts of a body flattened from Desugar d
ssa_end(facts, d) ==
    Only({ flatten_equalities_loop(g.equalities, 1, SsaState(g.d, <<>>, <<>>, {})) :
           g \in {gather_equalities(facts, 1, d, <<>>)} })

\* the deferred constraints as facts, in the order they were recorded
deferred(facts, d) ==
    [i \in 1..Len(ssa_end(facts, d).constraints) |->
        ConstrainEq(ssa_end(facts, d).constraints[i][1],
                    ssa_end(facts, d).constraints[i][2])]

IsPrefix(a, b) == Len(a) <= Len(b) /\ SubSeq(b, 1, Len(a)) = a

\* the facts of a list without their names: the kind of fact, the function
\* or literal, the number of arguments
shapes(facts) ==
    [i \in 1..Len(facts) |-> <<facts[i].tag, facts[i].head, Len(facts[i].args)>>]

RECURSIVE nested_pairs(_)
\* every call of an expression paired with each child that is a call or a
\* literal
nested_pairs(expr) ==
    IF expr.tag # "Call" THEN {}
    ELSE {<<expr, expr.children[i]>> :
             i \in {k \in 1..Len(expr.children) : expr.children[k].tag # "Var"}}
         \cup UNION {nested_pairs(expr.children[i]) : i \in 1..Len(expr.children)}

\* a flattened fact that has the shape of the fact of an expression
fact_of(fact, expr) ==
    IF expr.tag = "Lit" THEN fact.tag = "AssignLit" /\ fact.head = expr.head
    ELSE /\ fact.tag \in {"Assign", "Compute"}
         /\ fact.head = expr.head
         /\ Len(fact.args) = Len(expr.children)

\* C21: what flatten_facts returns is the facts of the surface facts in the
\* order these were written (the facts of the first k surface facts, names
\* apart, are a prefix of it), a nested subterm before its parent call,
\* followed by all the deferred constraints in the order they were recorded;
\* nothing follows the deferred constraints, and a ConstrainEq before them
\* is the equality with a variable the user wrote
C21_SourceOrderThenDeferred ==
    RuleFlattened =>
        /\ output.flat_facts
              = ssa_end(input.rule.body, pre).res \o deferred(input.rule.body, pre)
        /\ \A i \in 1..Len(ssa_end(input.rule.body, pre).res) :
              output.flat_facts[i].tag = "ConstrainEq"
                 => output.flat_facts[i].args[1] \in rule_symbols(input.rule)
        /\ \A k \in 0..Len(input.rule.body) :
              IsPrefix(shapes(ssa_end(SubSeq(input.rule.body, 1, k), pre).res),
                       shapes(output.flat_facts))
        /\ \A b \in 1..Len(input.rule.body) :
              \A a \in 1..Len(input.rule.body[b].args) :
                 \A pair \in nested_pairs(input.rule.body[b].args[a]) :
                    \E i \in 1..Len(output.flat_facts) :
                       /\ fact_of(output.flat_facts[i], pair[1])
                       /\ \E j \in 1..(i - 1) : fact_of(output.flat_facts[j], pair[2])

\* two surface facts, a nested call, and a deferred constraint that the
\* first surface fact recorded
C21_Witness ==
    /\ RuleFlattened
    /\ Len(input.rule.body) = 2
    /\ nested_pairs(input.rule.body[1].args[1]) # {}
    /\ Len(deferred(SubSeq(input.rule.body, 1, 1), pre)) > 0
    /\ Len(ssa_end(input.rule.body, pre).res)
          > Len(ssa_end(SubSeq(input.rule.body, 1, 1), pre).res)

----------------------------------------------------------------------------
(* C22: Set and SetNoTrack in the head flattener and in the seminaive      *)
(* transformer.                                                            *)

\* a head action with Set replaced by SetNoTrack
no_track(action) ==
    IF action.tag = "Set" THEN [action EXCEPT !.tag = "SetNoTrack"] ELSE action

\* a Rule command with every Set of its head replaced by SetNoTrack
no_track_command(command) ==
    [command EXCEPT !.surface_rule =
        Rule(@.body, [i \in DOMAIN @.head |-> no_track(@.head[i])])]

\* the normalized rules of a list of NormCommands
rules_of(cmds) == [i \in DOMAIN cmds |-> cmds[i].command.rule]

\* the last call desugared a Rule command whose head has a Set
DesugaredSetRule ==
    /\ DesugaredA("Rule")
    /\ \E i \in DOMAIN input.command.surface_rule.head :
          input.command.surface_rule.head[i].tag = "Set"

\* what the same call gives for the rule with SetNoTrack in place of Set
no_track_cmds ==
    desugar_command(no_track_command(input.command), pre, FALSE,
                    input.seminaive_transform).cmds

\* C22 as stated: for every rule command and every flag setting, replacing
\* Set by SetNoTrack in the head gives the same normalized rules, the
\* seminaive companion included.
C22_Original ==
    DesugaredSetRule => rules_of(no_track_cmds) = rules_of(output.cmds)

\* What holds of C22: replacing Set by SetNoTrack in the head of a rule gives
\* the same first normalized rule under every flag setting (the head flattener makes
\* NormAction::Set of both); the seminaive transformer lifts the right-hand
\* side of Set only, so the rule with SetNoTrack gets no companion rule, and
\* without the seminaive flag the whole output is the same.
C22_SameHeadNoCompanion ==
    DesugaredSetRule =>
        /\ Len(no_track_cmds) = 1
        /\ rules_of(no_track_cmds)[1] = rules_of(output.cmds)[1]
        /\ ~input.seminaive_transform =>
               rules_of(no_track_cmds) = rules_of(output.cmds)

\* a rule with a call-valued Set got its companion under the seminaive flag
C22_Witness ==
    /\ DesugaredSetRule
    /\ input.seminaive_transform
    /\ Len(output.cmds) = 2
    /\ Len(no_track_cmds) = 1

----------------------------------------------------------------------------
(* C23: equalities of more than two expressions in a body.                 *)

\* every equality of the body of the rule drawn has at least two expressions
EqsOfTwoOrMore ==
    /\ output.kind = "rule"
    /\ \A i \in DOMAIN input.rule.body :
          input.rule.body[i].tag = "Eq" => Len(input.rule.body[i].args) >= 2

\* the body of the rule drawn has an equality of three or more expressions
HasWideEq ==
    \E i \in DOMAIN input.rule.body :
        input.rule.body[i].tag = "Eq" /\ Len(input.rule.body[i].args) >= 3

\* C23 as stated: flatten_facts accepts an equality of any arity n >= 2, so
\* flattening a body whose equalities all have two or more expressions
\* succeeds, for three and more as for two.
C23_Original ==
    EqsOfTwoOrMore => ~flatten_facts(input.rule.body, pre).panic

\* a body with an equality of three expressions or more was flattened and
\* the assertion of flatten_facts failed
C23_Witness ==
    /\ EqsOfTwoOrMore
    /\ HasWideEq
    /\ status = "panic"
    /\ flatten_facts(input.rule.body, pre).panic

\* What holds of C23: flattening a body fails exactly when one of its
\* equalities does not have two expressions.
C23_OnlyPairs ==
    output.kind = "rule" =>
        (flatten_facts(input.rule.body, pre).panic
            <=> \E i \in DOMAIN input.rule.body :
                   /\ input.rule.body[i].tag = "Eq"
                   /\ Len(input.rule.body[i].args) # 2)

----------------------------------------------------------------------------
(* C24: how desugar_command fails.                                         *)

\* the last call was desugar_command and it did not return Ok
CommandFailed ==
    /\ input.kind = "command"
    /\ output.kind = "commands"
    /\ output.result # "Ok"

\* an Include of a file that cannot be read
UnreadableInclude(command) ==
    command.tag = "Include" /\ command.file \notin ReadableFiles

\* a Fail of a command that desugars to no command
FailOfNothing(command) ==
    /\ command.tag = "Fail"
    /\ \E r \in {desugar_command(command.inner, pre, FALSE,
                                  input.seminaive_transform)} :
          r.result = "Ok" /\ r.cmds = <<>>

\* a Let(x, e) whose flattened expression has the name x
LetOfItself(command) ==
    /\ command.tag = "Action"
    /\ command.action.tag = "Let"
    /\ command.action.rhs[1] = Var(command.action.sym)

\* a Check with an equality that does not have two expressions
CheckOfWideEq(command) ==
    /\ command.tag = "Check"
    /\ \E i \in DOMAIN command.facts :
          command.facts[i].tag = "Eq" /\ Len(command.facts[i].args) # 2

\* C24 as stated: every failure of desugar_command is an Err return and
\* never a panic.
C24_Original == CommandFailed => output.result = "Err"

\* an Include of an unreadable file was desugared, and it was a panic
C24_Witness ==
    /\ CommandFailed
    /\ UnreadableInclude(input.command)
    /\ output.result = "Panic"

\* the same for a Fail of a command that desugars to nothing
C24_WitnessFail ==
    CommandFailed /\ FailOfNothing(input.command) /\ output.result = "Panic"

\* the same for a Let of a variable to itself
C24_WitnessLet ==
    CommandFailed /\ LetOfItself(input.command) /\ output.result = "Panic"

\* the same for an equality of three expressions
C24_WitnessEq ==
    CommandFailed /\ CheckOfWideEq(input.command) /\ output.result = "Panic"

\* What holds of C24: a failure is an Err return exactly when it comes from
\* the parser of an included file.
C24_ErrOnlyFromParser ==
    (CommandFailed /\ output.result = "Err") =>
        \/ input.command.tag = "Include"
        \/ input.command.tag = "Fail"

----------------------------------------------------------------------------
(* C25: the Desugar state after a failed command.                          *)

\* the last call was desugar_command and it returned Err
CommandErr == CommandFailed /\ output.result = "Err"

\* C25 as stated: when desugar_command returns Err the Desugar state is
\* what it was before the command, and no normalized command is delivered.
C25_Original == CommandErr => (D = pre /\ output.cmds = <<>>)

\* an Include, alone or under Fail, desugared a Declare of its file and then
\* returned the parse error of a nested Include: the counters and the
\* globals kept what the Declare did
C25_Witness ==
    /\ CommandErr
    /\ input.command \in {CmdInclude(sym_r), CmdFail(CmdInclude(sym_r))}
    /\ next_fresh > pre.next_fresh
    /\ next_command_id > pre.next_command_id
    /\ sym_b \in global_variables \ pre.global_variables

\* What holds of C25: a call that returns Err delivers no normalized
\* command, and the state changes only by what the commands desugared
\* before the error did: the counters never go back and no global is lost.
C25_NothingDelivered ==
    CommandErr =>
        /\ output.cmds = <<>>
        /\ next_fresh >= pre.next_fresh
        /\ next_command_id >= pre.next_command_id
        /\ pre.global_variables \subseteq global_variables

----------------------------------------------------------------------------
(* C26: top-level Let and global_types.                                    *)

\* the last call was typecheck_command on a top-level Let
TypedLet ==
    /\ TypedA("NormAction")
    /\ input.ncommand.action.tag = "Let"

\* the last call was a top-level Let of a registered global to an expression
\* of another sort
Rebinding ==
    /\ TypedLet
    /\ input.ncommand.action.sym \in DOMAIN pre.global_types
    /\ typecheck_expr(pre, input.ncommand.action.rhs[1], {}).tag = "Ok"
    /\ output_type(pre, input.ncommand.action.rhs[1])
          # pre.global_types[input.ncommand.action.sym]

C26_LastLetWins ==
    TypedLet =>
        IF ResultKind = "Ok"
        THEN global_types = Put(pre.global_types, input.ncommand.action.sym,
                                output_type(pre, input.ncommand.action.rhs[1]))
        ELSE global_types = pre.global_types

----------------------------------------------------------------------------
(* C27: globals in a flattened body.                                       *)

\* the surface equalities of the body drawn whose left side is a global
GlobalEqs ==
    {k \in DOMAIN input.rule.body :
        /\ input.rule.body[k].tag = "Eq"
        /\ input.rule.body[k].args[1].tag = "Var"
        /\ input.rule.body[k].args[1].head \in global_variables}

\* no global is the lhs of an Assign, Compute or AssignLit of flatten_facts
NoGlobalBound ==
    \A i \in DOMAIN output.flat_facts :
        output.flat_facts[i].tag \in BindingFacts
            => output.flat_facts[i].lhs \notin global_variables

\* some generated name is constrained to the global g
Constrained(g) ==
    \E j \in DOMAIN output.flat_facts :
        /\ output.flat_facts[j].tag = "ConstrainEq"
        /\ IsGenerated(output.flat_facts[j].lhs)
        /\ output.flat_facts[j].args = <<g>>

\* some generated name is bound by a fact and constrained to the global g
BoundAndConstrained(g) ==
    \E i, j \in DOMAIN output.flat_facts :
        /\ output.flat_facts[i].tag \in BindingFacts
        /\ IsGenerated(output.flat_facts[i].lhs)
        /\ output.flat_facts[j] = ConstrainEq(output.flat_facts[i].lhs, g)

\* C27 as stated: in the list flatten_facts produces no global is the lhs of
\* an Assign, Compute or AssignLit, and a surface equality whose left side
\* is a global is always lowered to a binding of a fresh name plus
\* ConstrainEq(fresh, global).
C27_Original ==
    RuleFlattened =>
        /\ NoGlobalBound
        /\ \A k \in GlobalEqs :
              BoundAndConstrained(input.rule.body[k].args[1].head)

\* C27: in the list flatten_facts produces no global is the lhs of an
\* Assign, Compute or AssignLit; a surface equality whose left side is a
\* global g gives ConstrainEq(fresh, g) for a generated name, and that name
\* is bound by a fact when the other side is a call or a literal; when the
\* other side is a plain variable v the name is bound by no fact and the
\* equality is lowered to ConstrainEq(fresh, v) and ConstrainEq(fresh, g).
C27_GlobalsConstrainedNotBound ==
    RuleFlattened =>
        /\ NoGlobalBound
        /\ \A k \in GlobalEqs :
              /\ Constrained(input.rule.body[k].args[1].head)
              /\ ~is_var(input.rule.body[k].args[2])
                    => BoundAndConstrained(input.rule.body[k].args[1].head)
              /\ is_var(input.rule.body[k].args[2])
                    => \E j \in DOMAIN output.flat_facts :
                          /\ output.flat_facts[j].tag = "ConstrainEq"
                          /\ IsGenerated(output.flat_facts[j].lhs)
                          /\ output.flat_facts[j].args
                                = <<input.rule.body[k].args[2].head>>
                          /\ \A i \in DOMAIN output.flat_facts :
                                output.flat_facts[i].tag \in BindingFacts
                                    => output.flat_facts[i].lhs
                                          # output.flat_facts[j].lhs

\* a body with an equality of a global and a call, and one with an equality
\* of a global and a plain variable, were flattened
C27_Witness ==
    /\ RuleFlattened
    /\ \E k \in GlobalEqs : ~is_var(input.rule.body[k].args[2])
    /\ \E k \in GlobalEqs : is_var(input.rule.body[k].args[2])

----------------------------------------------------------------------------
(* C28: the names of sorts, functions and primitives.                      *)

\* no name is a sort and a function at once
SortsFunctionsDisjoint == DOMAIN sorts \cap DOMAIN func_types = {}

\* no function has the name of a primitive
NoPrimitiveFunction ==
    \A f \in DOMAIN func_types : ~is_primitive(primitives, f)

\* C28: after any sequence of typecheck_command and typecheck_program calls
\* from TypeInfo::default no name is a key of sorts and of func_types, and
\* is_primitive is false for every key of func_types. The second part is
\* checked for sorts that register no primitive of their own.
C28_NamespacesDisjoint == SortsFunctionsDisjoint /\ NoPrimitiveFunction

\* sorts and functions were declared, a declaration of each kind was
\* refused for a name of the other kind, and one for the name of a primitive
C28_Witness ==
    /\ DOMAIN func_types # {}
    /\ DOMAIN sorts # DOMAIN DefaultSorts
    /\ TypedA("Function") \/ TypedA("Sort")
    /\ ResultKind \in {"SortAlreadyBound", "FunctionAlreadyBound",
                        "PrimitiveAlreadyBound"}

----------------------------------------------------------------------------
(* C29: generated names and is_temp_name.                                  *)

\* the last name get_fresh returned
NameReturned == output.kind = "name"

\* the counter the last name was made from is at most u32::MAX
CounterFitsU32 ==
    \/ Len(pre.next_fresh) < Len(u32_max)
    \/ Len(pre.next_fresh) = Len(u32_max) /\ digits_leq(pre.next_fresh, u32_max)

\* C29 as stated: every name get_fresh returns is recognised by
\* is_temp_name, for every value of next_fresh and every
\* number_underscores.
C29_Original == NameReturned => is_temp_name(output.name)

\* with three underscores, the name made from the counter 2^32 is not
\* recognised
C29_Witness ==
    /\ NameReturned
    /\ number_underscores = 3
    /\ pre.next_fresh = succ_digits(u32_max)
    /\ ~is_temp_name(output.name)

\* with a number of underscores other than three, the name made from a
\* small counter is not recognised
C29_WitnessUnderscores ==
    /\ NameReturned
    /\ number_underscores # 3
    /\ CounterFitsU32
    /\ ~is_temp_name(output.name)

\* What holds of C29: a name get_fresh returns is recognised by
\* is_temp_name exactly when number_underscores is 3 and the counter it was
\* made from is at most u32::MAX.
C29_RecognisedIffThreeAndU32 ==
    NameReturned =>
        (is_temp_name(output.name) <=> (number_underscores = 3 /\ CounterFitsU32))

----------------------------------------------------------------------------
(* C30: the names a command binds at top level and global_variables.       *)

\* the names the user gave that a command binds at top level
bound_names(command) ==
    CASE command.tag \in {"Declare", "Define"} -> {command.name}
      [] command.tag = "Action" /\ command.action.tag = "Let" -> {command.action.sym}
      [] command.tag = "Calc" ->
            {command.idents[i].ident : i \in DOMAIN command.idents}
      [] OTHER -> {}

\* the last call was desugar_command, it returned Ok and the command binds
\* a name
DesugaredBinding ==
    /\ input.kind = "command"
    /\ Desugared
    /\ bound_names(input.command) # {}

\* C30 as stated: once a Declare, a Define, a top-level Let or a Calc with
\* idents has been desugared, every name it binds is a member of
\* global_variables, and global_variables loses no member.
C30_Original ==
    /\ DesugaredBinding => bound_names(input.command) \subseteq global_variables
    /\ output.kind = "commands" => pre.global_variables \subseteq global_variables

\* a Calc that declares an ident was desugared; it emitted the Let of the
\* ident, and the ident is no member of global_variables
C30_Witness ==
    /\ DesugaredA("Calc")
    /\ \E i \in DOMAIN input.command.idents :
          /\ input.command.idents[i].ident \notin global_variables
          /\ \E j \in DOMAIN output.cmds :
                /\ output.cmds[j].command.tag = "NormAction"
                /\ output.cmds[j].command.naction.tag = "Let"
                /\ output.cmds[j].command.naction.lhs = input.command.idents[i].ident

\* What holds of C30: the name of a Declare, the name of a Define and the
\* variable of a top-level Let are members of global_variables once the
\* command has been desugared, a Calc adds no name to global_variables, and
\* global_variables loses no member.
C30_GlobalsButCalc ==
    /\ (DesugaredBinding /\ input.command.tag # "Calc")
            => bound_names(input.command) \subseteq global_variables
    /\ DesugaredA("Calc") => global_variables = pre.global_variables
    /\ output.kind = "commands" => pre.global_variables \subseteq global_variables

=============================================================================
